---- MODULE Spec2Model ----
(***************************************************************************)
(* A model of ina111/transcriber: the audio segmenter (transcriber/audio.py*)
(* ), the Gemini client with its retry loop (transcriber/gemini.py), the   *)
(* CLI orchestrator (transcriber/main.py) and the web orchestrator         *)
(* (app/routers/transcription.py).                                         *)
(*                                                                         *)
(* Times are held in milliseconds throughout: the code divides pydub's     *)
(* integer millisecond positions by 1000.0 to get seconds, so a time of s  *)
(* seconds is the integer 1000*s here and a comparison "x / 1000.0 >= D"   *)
(* is "x >= D * MsPerSecond".                                              *)
(***************************************************************************)
EXTENDS Integers, Sequences, FiniteSets, TLC

VARIABLES
    \* ---- segmenter (split_audio_if_needed as a function of its inputs)
    splitIn,        \* the audio file and the faults of one split call
    splitOut,       \* what split_audio_if_needed returned or raised
    \* ---- one orchestrator run (CLI process_transcription, or one web request)
    run,            \* the orchestrator's locals: pc, options, segments, texts, ...
    tasks,          \* the client calls of the run, keyed by call id
    total_usage,    \* GeminiClient.total_usage
    \* ---- the web service under concurrent requests
    web,            \* requests, the shared AudioProcessor and the file system
    \* ---- process_input and calculate_cost as functions of their inputs
    acquireIn,      \* the input string and the faults of one process_input call
    acquireOut,     \* what process_input returned or raised, and the calls it made
    costIn,         \* a TokenUsage and a model name
    costOut         \* what calculate_cost returned

varsSplit == <<splitIn, splitOut>>
varsRun == <<run, tasks, total_usage>>
varsWeb == <<web>>
varsFunc == <<acquireIn, acquireOut, costIn, costOut>>
vars == <<splitIn, splitOut, run, tasks, total_usage, web, acquireIn, acquireOut, costIn,
         costOut>>

(***************************************************************************)
(* Bounds of the model and constants of the program.                       *)
(***************************************************************************)
MaxLenUnits == 20          \* audio lengths and probed durations: 0..MaxLenUnits half seconds
MaxExportFail == 2         \* which _save_segment call may raise: none, 1st .. MaxExportFail-th
MaxRetry == 3              \* RETRY_COUNT is drawn from 0..MaxRetry
MaxSegments == 3           \* a run's audio splits into at most MaxSegments segments
MaxCalls == 4              \* a run is followed while segments * RETRY_COUNT <= MaxCalls
MaxTokens == 3            \* token counts of a TokenUsage passed to calculate_cost

MsPerSecond == 1000        \* "/ 1000.0" and "* 1000" in audio.py
min_silence_len == 3000    \* detect_silence(min_silence_len=3000)
seek_step == 1000          \* detect_silence(seek_step=1000)
SilenceSkipFactor == 3     \* "duration > max_duration * 3"
BackoffBase == 2           \* "2 ** attempt"

MaxDurations == {2, 3}     \* MAX_AUDIO_DURATION values (seconds) the model draws
RetryDelays == {1, 2}      \* RETRY_DELAY values (seconds) the model draws

RECURSIVE Pow(_, _)
Pow(b, e) == IF e = 0 THEN 1 ELSE b * Pow(b, e - 1)

Min(a, b) == IF a <= b THEN a ELSE b

Last(s) == s[Len(s)]

(***************************************************************************)
(* File paths.  A path is a record: the directory, the kind of file and a  *)
(* number (the segment id for segment files, the owner for input files).   *)
(***************************************************************************)
Path(dir, kind, id) == [dir |-> dir, kind |-> kind, id |-> id]

\* _save_segment: self.temp_dir / f"segment_{segment_id}.mp3"
SegmentPath(temp_dir, segment_id) == Path(temp_dir, "segment", segment_id)

\* A segment numbered from 1
AudioSegmentFromOne(segment_id, start_time, end_time, file_path) ==
    [segment_id |-> segment_id + 1, start_time |-> start_time, end_time |-> end_time,
     file_path |-> file_path, transcription |-> <<>>]

\* config.AudioSegment
AudioSegment(segment_id, start_time, end_time, file_path) ==
    [segment_id |-> segment_id, start_time |-> start_time,
     end_time |-> end_time, file_path |-> file_path, transcription |-> <<>>]

(***************************************************************************)
(* The segmenter.  An input `a` is a record                                *)
(*   path       the audio file's path                                      *)
(*   temp_dir   AudioProcessor.temp_dir                                    *)
(*   duration   what _get_duration_fast returns (ms)                       *)
(*   length     len(audio) of the decoded audio (ms)                       *)
(*   silences   what detect_silence returns: a sequence of <<start, end>>  *)
(*   decodeFails, scanFails   PyDubAudioSegment.from_file / detect_silence *)
(*              raise                                                      *)
(*   exportFailAt  the ordinal of the _save_segment call that raises, 0 if *)
(*              none does                                                  *)
(*   exportStaysFailed  every later _save_segment call raises as well      *)
(*   max_duration  config["max_audio_duration"] (seconds)                  *)
(***************************************************************************)

\* _save_segment raises on its n-th call of this split
ExportRaises(a, n) ==
    /\ a.exportFailAt # 0
    /\ IF a.exportStaysFailed THEN n >= a.exportFailAt ELSE n = a.exportFailAt

\* The loop cutting only at a silence that starts more than max_duration
\* after current_start
RECURSIVE SilenceLoopStrict(_, _, _)
SilenceLoopStrict(a, k, st) ==
    IF st.raised \/ k > Len(a.silences) THEN st
    ELSE LET silence_start == a.silences[k][1]
             silence_end == a.silences[k][2]
             segment_id == Len(st.segs)
         IN  IF silence_start - st.current_start > a.max_duration * MsPerSecond
             THEN IF ExportRaises(a, st.exports + 1)
                  THEN [st EXCEPT !.raised = TRUE, !.exports = @ + 1]
                  ELSE SilenceLoopStrict(a, k + 1,
                         [segs |-> Append(st.segs,
                                     AudioSegment(segment_id, st.current_start, silence_start,
                                                  SegmentPath(a.temp_dir, segment_id))),
                          current_start |-> silence_end,
                          exports |-> st.exports + 1,
                          raised |-> FALSE])
             ELSE SilenceLoopStrict(a, k + 1, st)

\* The for loop of _split_by_silence_fast from the k-th silence range on.
\* st = [segs, current_start, exports, raised]; segment_id is Len(st.segs).
RECURSIVE SilenceLoop(_, _, _)
SilenceLoop(a, k, st) ==
    IF st.raised \/ k > Len(a.silences) THEN st
    ELSE LET silence_start == a.silences[k][1]
             silence_end == a.silences[k][2]
             segment_id == Len(st.segs)
         IN  IF silence_start - st.current_start >= a.max_duration * MsPerSecond
             THEN IF ExportRaises(a, st.exports + 1)
                  THEN [st EXCEPT !.raised = TRUE, !.exports = @ + 1]
                  ELSE SilenceLoop(a, k + 1,
                         [segs |-> Append(st.segs,
                                     AudioSegment(segment_id, st.current_start, silence_start,
                                                  SegmentPath(a.temp_dir, segment_id))),
                          current_start |-> silence_end,
                          exports |-> st.exports + 1,
                          raised |-> FALSE])
             ELSE SilenceLoop(a, k + 1, st)

\* _split_by_silence_fast without its "if not silence_ranges: return []":
\* with no silence the loop does nothing and the whole audio is the trailing
\* segment
SplitBySilenceFastNoEmptyTest(a) ==
    IF a.scanFails THEN [segs |-> <<>>, exports |-> 0]
    ELSE LET st == SilenceLoop(a, 1, [segs |-> <<>>, current_start |-> 0,
                                      exports |-> 0, raised |-> FALSE])
             segment_id == Len(st.segs)
         IN  IF st.raised THEN [segs |-> <<>>, exports |-> st.exports]
             ELSE IF st.current_start < a.length
             THEN IF ExportRaises(a, st.exports + 1)
                  THEN [segs |-> <<>>, exports |-> st.exports + 1]
                  ELSE [segs |-> Append(st.segs,
                                   AudioSegment(segment_id, st.current_start, a.length,
                                                SegmentPath(a.temp_dir, segment_id))),
                        exports |-> st.exports + 1]
             ELSE [segs |-> st.segs, exports |-> st.exports]

\* _split_by_silence_fast: [segs, exports, scanned]; every exception is
\* swallowed and the empty list returned.
SplitBySilenceFast(a) ==
    IF a.scanFails THEN [segs |-> <<>>, exports |-> 0]
    ELSE IF a.silences = <<>> THEN [segs |-> <<>>, exports |-> 0]
    ELSE LET st == SilenceLoop(a, 1, [segs |-> <<>>, current_start |-> 0,
                                      exports |-> 0, raised |-> FALSE])
             segment_id == Len(st.segs)
         IN  IF st.raised THEN [segs |-> <<>>, exports |-> st.exports]
             ELSE IF st.current_start < a.length
             THEN IF ExportRaises(a, st.exports + 1)
                  THEN [segs |-> <<>>, exports |-> st.exports + 1]
                  ELSE [segs |-> Append(st.segs,
                                   AudioSegment(segment_id, st.current_start, a.length,
                                                SegmentPath(a.temp_dir, segment_id))),
                        exports |-> st.exports + 1]
             ELSE [segs |-> st.segs, exports |-> st.exports]

\* The number of range() values rounded down: the last, shorter segment is
\* dropped
RangeCountFloor(total, step) == IF total <= 0 THEN 0 ELSE total \div step

\* len(range(0, total, step))
RangeCount(total, step) == IF total <= 0 THEN 0 ELSE (total + step - 1) \div step

\* Fault variant of TimeSegmentEnd: the end is not clamped to the audio's end.
TimeSegmentEndUnclamped(start_ms, segment_duration_ms, total_duration) ==
    start_ms + segment_duration_ms

\* end_ms of the i-th fixed-interval segment
TimeSegmentEnd(start_ms, segment_duration_ms, total_duration) ==
    Min(start_ms + segment_duration_ms, total_duration)

\* _split_by_time returning the segments exported before the failing
\* _save_segment call instead of raising
SplitByTimePartial(a, done) ==
    LET segment_duration_ms == a.max_duration * MsPerSecond
        total_duration == a.length
        n == RangeCount(total_duration, segment_duration_ms)
        failing == {i \in 0..(n - 1) : ExportRaises(a, done + i + 1)}
        m == IF failing = {} THEN n ELSE CHOOSE i \in failing : \A j \in failing : i <= j
    IN  [segs |-> [j \in 1..m |->
                     AudioSegment(j - 1, (j - 1) * segment_duration_ms,
                                  TimeSegmentEnd((j - 1) * segment_duration_ms,
                                                 segment_duration_ms, total_duration),
                                  SegmentPath(a.temp_dir, j - 1))],
         raised |-> FALSE,
         exports |-> IF failing = {} THEN done + n ELSE done + m + 1]

\* _split_by_time, called after `done` earlier _save_segment calls:
\* [segs, exports, raised]
SplitByTime(a, done) ==
    LET segment_duration_ms == a.max_duration * MsPerSecond
        total_duration == a.length
        n == RangeCount(total_duration, segment_duration_ms)
        failing == {i \in 0..(n - 1) : ExportRaises(a, done + i + 1)}
    IN  IF failing # {}
        THEN [segs |-> <<>>, raised |-> TRUE,
              exports |-> done + 1 + CHOOSE i \in failing : \A j \in failing : i <= j]
        ELSE [segs |-> [j \in 1..n |->
                          AudioSegment(j - 1, (j - 1) * segment_duration_ms,
                                       TimeSegmentEnd((j - 1) * segment_duration_ms,
                                                      segment_duration_ms, total_duration),
                                       SegmentPath(a.temp_dir, j - 1))],
              raised |-> FALSE,
              exports |-> done + n]

\* the result of a split that raised
SplitRaised(policy, exports, decoded, scanned) ==
    [status |-> "ProcessingError", segments |-> <<>>, policy |-> policy,
     exports |-> exports, decoded |-> decoded, scanned |-> scanned]

SplitReturned(segments, policy, exports, decoded, scanned) ==
    [status |-> "ok", segments |-> segments, policy |-> policy,
     exports |-> exports, decoded |-> decoded, scanned |-> scanned]

\* The skip test with >= for >: a duration of exactly three times the maximum
\* skips silence detection too
SkipsSilenceAtThreeTimes(a) == a.duration >= a.max_duration * MsPerSecond * SilenceSkipFactor

\* duration > max_duration * 3: silence analysis is skipped
SkipsSilence(a) == a.duration > a.max_duration * MsPerSecond * SilenceSkipFactor

\* split_audio_if_needed with "duration < max_duration" for its first test: a
\* file of exactly the maximum duration is decoded and split
SplitAudioIfNeededStrict(a) ==
    IF a.duration < a.max_duration * MsPerSecond
    THEN SplitReturned(<<AudioSegment(0, 0, a.duration, a.path)>>, "whole", 0, FALSE, FALSE)
    ELSE IF a.decodeFails THEN SplitRaised("none", 0, FALSE, FALSE)
    ELSE IF SkipsSilence(a)
    THEN LET t == SplitByTime(a, 0)
         IN  IF t.raised THEN SplitRaised("time", t.exports, TRUE, FALSE)
             ELSE SplitReturned(t.segs, "time", t.exports, TRUE, FALSE)
    ELSE LET s == SplitBySilenceFast(a)
         IN  IF s.segs # <<>>
             THEN SplitReturned(s.segs, "silence", s.exports, TRUE, TRUE)
             ELSE LET t == SplitByTime(a, s.exports)
                  IN  IF t.raised THEN SplitRaised("time", t.exports, TRUE, TRUE)
                      ELSE SplitReturned(t.segs, "time", t.exports, TRUE, TRUE)

\* split_audio_if_needed.  policy: "whole" (no split), "silence", "time".
SplitAudioIfNeeded(a) ==
    IF a.duration <= a.max_duration * MsPerSecond
    THEN SplitReturned(<<AudioSegment(0, 0, a.duration, a.path)>>, "whole", 0, FALSE, FALSE)
    ELSE IF a.decodeFails THEN SplitRaised("none", 0, FALSE, FALSE)
    ELSE IF SkipsSilence(a)
    THEN LET t == SplitByTime(a, 0)
         IN  IF t.raised THEN SplitRaised("time", t.exports, TRUE, FALSE)
             ELSE SplitReturned(t.segs, "time", t.exports, TRUE, FALSE)
    ELSE LET s == SplitBySilenceFast(a)
         IN  IF s.segs # <<>>
             THEN SplitReturned(s.segs, "silence", s.exports, TRUE, TRUE)
             ELSE LET t == SplitByTime(a, s.exports)
                  IN  IF t.raised THEN SplitRaised("time", t.exports, TRUE, TRUE)
                      ELSE SplitReturned(t.segs, "time", t.exports, TRUE, TRUE)

(***************************************************************************)
(* The audio files the model draws.                                        *)
(***************************************************************************)
Lengths == {u * 500 : u \in 0..MaxLenUnits}

\* One range detect_silence can report on audio of length len: it starts on
\* the seek grid, is at least min_silence_len long and ends on the grid or at
\* the end of the audio.
SilenceRanges(len) ==
    LET grid == {k * seek_step : k \in 0..(len \div seek_step)}
    IN  {<<s, e>> \in grid \X (grid \cup {len}) : e - s >= min_silence_len}

\* detect_silence returns the ranges in order, disjoint and not touching
SilenceLists(len) ==
    {<<>>}
    \cup {<<r>> : r \in SilenceRanges(len)}
    \cup {<<r1, r2>> : <<r1, r2>> \in
            {p \in SilenceRanges(len) \X SilenceRanges(len) : p[1][2] < p[2][1]}}

\* the audio files of decoded length l
\* No export raises, or the n-th does, alone or with every later one
ExportFaults == {<<0, FALSE>>} \cup ((1..MaxExportFail) \X BOOLEAN)

AudioInputs(l) ==
    {[path |-> Path("input", "source", 0), temp_dir |-> "temp_1",
      duration |-> d, length |-> l, silences |-> sl,
      decodeFails |-> df, scanFails |-> sf, exportFailAt |-> ef[1],
      exportStaysFailed |-> ef[2], max_duration |-> D] :
        d \in Lengths, sl \in SilenceLists(l),
        df \in BOOLEAN, sf \in BOOLEAN, ef \in ExportFaults, D \in MaxDurations}

NoSplit == [status |-> "none", segments |-> <<>>, policy |-> "none",
            exports |-> 0, decoded |-> FALSE, scanned |-> FALSE]

NoAudio == [path |-> Path("none", "none", 0), temp_dir |-> "none",
            duration |-> 0, length |-> 0, silences |-> <<>>,
            decodeFails |-> FALSE, scanFails |-> FALSE, exportFailAt |-> 0,
            exportStaysFailed |-> FALSE,
            max_duration |-> 0]


(***************************************************************************)
(* Texts.  A text is a sequence of tokens (integers); the token 0 stands   *)
(* for the blank-line separator "\n\n".  The remote model's transcript of  *)
(* the audio file at path p is the one-token text <<p.id + 1>>, or empty.  *)
(***************************************************************************)
Sep == <<0>>

\* sep.join(texts)
RECURSIVE Join(_, _)
Join(texts, sep) ==
    IF texts = <<>> THEN <<>>
    ELSE IF Len(texts) = 1 THEN texts[1]
    ELSE texts[1] \o sep \o Join(Tail(texts), sep)

\* [x for x in texts if x]
RECURSIVE NonEmpty(_)
NonEmpty(texts) ==
    IF texts = <<>> THEN <<>>
    ELSE IF texts[1] = <<>> THEN NonEmpty(Tail(texts))
    ELSE <<texts[1]>> \o NonEmpty(Tail(texts))

TranscriptOf(path) == <<path.id + 1>>
FormattedToken == <<100>>
SummaryToken == <<200>>

(***************************************************************************)
(* TokenUsage and the Gemini client.                                       *)
(***************************************************************************)
TokenUsage(i, o, a) == [input_tokens |-> i, output_tokens |-> o, audio_input_tokens |-> a]

ZeroUsage == TokenUsage(0, 0, 0)

\* Model names, each split at its hyphens
ModelNames ==
    {<<"gemini", "2.5", "flash">>, <<"Gemini", "2.5", "Flash">>,
     <<"gemini", "2.5", "flash", "lite">>, <<"gemini", "2.5", "pro">>,
     <<"models/gemini", "2.5", "pro", "preview">>, <<"gemini", "2.0", "flash", "exp">>,
     <<"gemini", "1.5", "pro">>}

\* model.lower()
LowerName(model) ==
    [k \in 1..Len(model) |->
       CASE model[k] = "Gemini" -> "gemini" [] model[k] = "Flash" -> "flash"
         [] OTHER -> model[k]]

\* "<version>-<family>" in name
InName(version, family, name) ==
    \E k \in 1..(Len(name) - 1) : name[k] = version /\ name[k + 1] = family

\* TokenUsage.calculate_cost, in units of 10^-8 USD: a rate of 0.30 USD per
\* 1,000,000 tokens is 30 units per token
CalculateCost(u, model) ==
    IF InName("2.5", "flash", LowerName(model))
    THEN u.input_tokens * 30 + u.audio_input_tokens * 100 + u.output_tokens * 250
    ELSE IF InName("2.5", "pro", LowerName(model))
    THEN u.input_tokens * 125 + u.output_tokens * 1000
    ELSE 0

CostInputs ==
    [usage : {TokenUsage(i, o, a) : i \in 0..MaxTokens, o \in 0..MaxTokens,
                                   a \in 0..MaxTokens},
     model : ModelNames]
NoCostIn == [usage |-> ZeroUsage, model |-> <<>>]
NoCost == [returned |-> FALSE, cost |-> 0]

\* Fault variant of AddUsage: the audio tokens accumulated so far are lost,
\* as when the sum is written from a stale copy of total_usage.
AddUsageStale(self, other) ==
    TokenUsage(self.input_tokens + other.input_tokens,
               self.output_tokens + other.output_tokens,
               other.audio_input_tokens)

\* TokenUsage.__add__
AddUsage(self, other) ==
    TokenUsage(self.input_tokens + other.input_tokens,
               self.output_tokens + other.output_tokens,
               self.audio_input_tokens + other.audio_input_tokens)

\* What a response carries: usage_metadata (prompt_token_count,
\* candidates_token_count) or none.
Metadata == {[present |-> FALSE, prompt |-> 0, candidates |-> 0],
             [present |-> TRUE, prompt |-> 2, candidates |-> 1]}

\* _extract_token_usage
ExtractTokenUsage(m, is_audio) ==
    IF ~m.present THEN ZeroUsage
    ELSE IF is_audio THEN TokenUsage(0, m.candidates, m.prompt)
    ELSE TokenUsage(m.prompt, m.candidates, 0)

\* The messages of the errors the remote call raises in the model, and the
\* retryable patterns that occur in each (lower-cased) message.
ErrorMessages == {"Deadline timeout", "400 Invalid argument"}

PatternsIn(msg) ==
    CASE msg = "Deadline timeout" -> {"timeout"}
      [] msg = "500 Internal server error" -> {"server error", "500"}
      [] OTHER -> {}

retryable_patterns ==
    {"rate limit", "quota exceeded", "timeout", "connection error",
     "server error", "503", "502", "500"}

\* _is_retryable_error
IsRetryableError(msg) == \E pattern \in retryable_patterns : pattern \in PatternsIn(msg)

\* Fault variant of WaitTime: a constant wait, no exponential growth.
WaitTimeConstant(retry_delay, attempt) == retry_delay

\* wait_time = retry_delay * (2 ** attempt)
WaitTime(retry_delay, attempt) == retry_delay * Pow(BackoffBase, attempt)

\* Fault variant of OnAttemptError: the last-attempt test is off by one, so
\* one more attempt than retry_count is made.
OnAttemptErrorOneMore(attempt, retry_count, msg) ==
    IF attempt = retry_count THEN "raise"
    ELSE IF ~IsRetryableError(msg) THEN "raise"
    ELSE "sleep"

\* Fault variant of OnAttemptError: every error is retried, the test of
\* _is_retryable_error is missing.
OnAttemptErrorRetryAll(attempt, retry_count, msg) ==
    IF attempt = retry_count - 1 THEN "raise" ELSE "sleep"

\* The except branch of _retry_with_backoff on the attempt-th attempt:
\* "raise" or "sleep"
OnAttemptError(attempt, retry_count, msg) ==
    IF attempt = retry_count - 1 THEN "raise"
    ELSE IF ~IsRetryableError(msg) THEN "raise"
    ELSE "sleep"

\* Call ids: segment i's transcribe_audio is call i; then format_text and
\* summarize_text.
FormatCall == MaxSegments
SummaryCall == MaxSegments + 1
CallIds == 0..SummaryCall
IsAudioCall(c) == c < MaxSegments

\* A call: its state (idle, gen: a generation request is in flight, sleep: in
\* a backoff wait, done: returned, raised, collected), the locals of
\* _retry_with_backoff, what was sent (path, input), how many uploads and
\* generation requests were made, the waits slept, the message of the last
\* error, the text of the response received, and what the call returned
\* (text), added to total_usage (usage) or raised (error).
IdleTask == [st |-> "idle", attempt |-> 0, calls |-> 0, uploads |-> 0, waits |-> <<>>,
             lastError |-> "none", path |-> Path("none", "none", 0), input |-> <<>>,
             response |-> <<>>, text |-> <<>>, usage |-> ZeroUsage, error |-> "none"]

Finished(t) == t.st \in {"done", "raised"}

\* The caller has taken the result of a finished call: the call's locals
\* (attempt, wait_time, ...) are gone; what it returned or raised stays.
Collect(t) ==
    IF Finished(t)
    THEN [IdleTask EXCEPT !.st = "collected", !.text = t.text, !.usage = t.usage,
                          !.error = t.error]
    ELSE t

CollectAll(tk, ids) == [c \in DOMAIN tk |-> IF c \in ids THEN Collect(tk[c]) ELSE tk[c]]

\* The first iteration of _retry_with_backoff's loop: with retry_count = 0
\* the loop body never runs and APIError is raised after it.
EnterRetryLoop(t, retry_count) ==
    IF retry_count <= 0
    THEN [t EXCEPT !.st = "raised", !.error = "APIError"]
    ELSE [t EXCEPT !.st = "gen", !.attempt = 0, !.calls = @ + 1]

\* transcribe_audio up to its first await: the upload, then the first
\* generation request
StartTranscribe(t, path, uploadFails, retry_count) ==
    IF uploadFails
    THEN [t EXCEPT !.st = "raised", !.error = "APIError", !.uploads = @ + 1, !.path = path,
                   !.lastError = "Upload failed"]
    ELSE EnterRetryLoop([t EXCEPT !.uploads = @ + 1, !.path = path], retry_count)

\* format_text / summarize_text up to the first await
StartTextCall(t, text, retry_count) ==
    EnterRetryLoop([t EXCEPT !.input = text], retry_count)

\* Fault variant of OnResponse: the response is not returned, the loop goes
\* on to a backoff wait and one more attempt.
OnResponseRetries(t, text, usage) ==
    [t EXCEPT !.st = "sleep", !.response = text, !.usage = usage]

\* The generation request of task t returned a response with this text and
\* metadata: the operation records the usage and returns the text.
OnResponse(t, text, usage) ==
    [t EXCEPT !.st = "done", !.response = text, !.text = text, !.usage = usage]

\* A variant in which a failed generation request is issued again at once,
\* whatever the attempt number and the error
OnErrorRetriesAtOnce(t, msg, retry_count, retry_delay) ==
    [t EXCEPT !.lastError = msg]

\* The generation request of task t raised an error with message msg.
OnError(t, msg, retry_count, retry_delay) ==
    IF OnAttemptError(t.attempt, retry_count, msg) = "raise"
    THEN [t EXCEPT !.st = "raised", !.error = "APIError", !.lastError = msg]
    ELSE [t EXCEPT !.st = "sleep", !.lastError = msg,
                   !.waits = Append(@, WaitTime(retry_delay, t.attempt))]

\* A variant in which every retry uploads the audio again
OnWakeReuploads(t) ==
    [t EXCEPT !.st = "gen", !.attempt = @ + 1, !.calls = @ + 1, !.uploads = @ + 1]

\* asyncio.sleep(wait_time) is over: the next attempt
OnWake(t) == [t EXCEPT !.st = "gen", !.attempt = @ + 1, !.calls = @ + 1]


(***************************************************************************)
(* Source acquisition: AudioProcessor.process_input.                       *)
(***************************************************************************)
supported_formats == {".mp3", ".wav", ".m4a", ".aac", ".flac", ".ogg"}

\* An input source: a YouTube URL (its host is in _is_youtube_url's list) or
\* a path, with what exists() and is_file() say of it and its suffix.
Source(youtube, exists, is_file, suffix) ==
    [youtube |-> youtube, exists |-> exists, is_file |-> is_file, suffix |-> suffix]

\* The CLI's input sources: a YouTube URL, or a local path that is missing,
\* a directory, a text file, an MP3 file or a WAV file.
InputSources ==
    {Source(TRUE, FALSE, FALSE, ""),
     Source(FALSE, FALSE, FALSE, ".mp3"),
     Source(FALSE, TRUE, FALSE, ""),
     Source(FALSE, TRUE, TRUE, ".txt"),
     Source(FALSE, TRUE, TRUE, ".mp3"),
     Source(FALSE, TRUE, TRUE, ".wav")}

\* The web service's: a YouTube URL, or an uploaded file, which the handler
\* saves under the suffix of its name before process_input sees it.
WebInputSources ==
    {Source(TRUE, FALSE, FALSE, ""),
     Source(FALSE, TRUE, TRUE, ".txt"),
     Source(FALSE, TRUE, TRUE, ".webm"),
     Source(FALSE, TRUE, TRUE, ".mp3"),
     Source(FALSE, TRUE, TRUE, ".wav")}

SourcePath == Path("input", "source", 0)
NoPath == Path("none", "none", 0)

\* What process_input returns or raises, the files it has written and the
\* calls it has made, in order
Acquired(status, audio_path, input_type, created, calls) ==
    [status |-> status, audio_path |-> audio_path, input_type |-> input_type,
     created |-> created, calls |-> calls]

\* A variant that re-encodes every input, an MP3 file included
ConvertAudioFormatAlways(input_path, suffix, temp_dir, convertFails) ==
    IF convertFails
    THEN [status |-> "ProcessingError", path |-> NoPath, created |-> {},
          calls |-> <<"convert_audio_format", "from_file">>]
    ELSE [status |-> "ok", path |-> Path(temp_dir, "converted", 0),
          created |-> {Path(temp_dir, "converted", 0)},
          calls |-> <<"convert_audio_format", "from_file", "export">>]

\* convert_audio_format: [status, path, created, calls]; `suffix` is the
\* lower-cased suffix of input_path
ConvertAudioFormat(input_path, suffix, temp_dir, convertFails) ==
    IF suffix = ".mp3"
    THEN [status |-> "ok", path |-> input_path, created |-> {},
          calls |-> <<"convert_audio_format">>]
    ELSE IF convertFails
    THEN [status |-> "ProcessingError", path |-> NoPath, created |-> {},
          calls |-> <<"convert_audio_format", "from_file">>]
    ELSE [status |-> "ok", path |-> Path(temp_dir, "converted", 0),
          created |-> {Path(temp_dir, "converted", 0)},
          calls |-> <<"convert_audio_format", "from_file", "export">>]

\* A variant that skips the extension allowlist
ProcessInputNoSuffixCheck(inp, temp_dir, downloadFails, convertFails) ==
    IF inp.youtube
    THEN IF downloadFails
         THEN Acquired("ProcessingError", NoPath, "none", {}, <<"download_youtube_audio">>)
         ELSE Acquired("ok", Path(temp_dir, "youtube", 0), "youtube",
                       {Path(temp_dir, "youtube", 0)}, <<"download_youtube_audio">>)
    ELSE IF ~inp.exists
    THEN Acquired("InputValidationError", NoPath, "none", {}, <<"exists">>)
    ELSE IF ~inp.is_file
    THEN Acquired("InputValidationError", NoPath, "none", {}, <<"exists", "is_file">>)
    ELSE LET c == ConvertAudioFormat(SourcePath, inp.suffix, temp_dir, convertFails)
             calls == <<"exists", "is_file">> \o c.calls
         IN  IF c.status # "ok" THEN Acquired("ProcessingError", NoPath, "none", {}, calls)
             ELSE Acquired("ok", c.path, "file", c.created, calls)

\* process_input
ProcessInput(inp, temp_dir, downloadFails, convertFails) ==
    IF inp.youtube
    THEN IF downloadFails
         THEN Acquired("ProcessingError", NoPath, "none", {}, <<"download_youtube_audio">>)
         ELSE Acquired("ok", Path(temp_dir, "youtube", 0), "youtube",
                       {Path(temp_dir, "youtube", 0)}, <<"download_youtube_audio">>)
    ELSE IF ~inp.exists
    THEN Acquired("InputValidationError", NoPath, "none", {}, <<"exists">>)
    ELSE IF ~inp.is_file
    THEN Acquired("InputValidationError", NoPath, "none", {}, <<"exists", "is_file">>)
    ELSE IF inp.suffix \notin supported_formats
    THEN Acquired("InputValidationError", NoPath, "none", {},
                  <<"exists", "is_file", "suffix">>)
    ELSE LET c == ConvertAudioFormat(SourcePath, inp.suffix, temp_dir, convertFails)
             calls == <<"exists", "is_file", "suffix">> \o c.calls
         IN  IF c.status # "ok" THEN Acquired("ProcessingError", NoPath, "none", {}, calls)
             ELSE Acquired("ok", c.path, "file", c.created, calls)

\* ---- process_input on an input string

youtube_domains ==
    {"youtube.com", "www.youtube.com", "m.youtube.com", "youtu.be", "www.youtu.be"}

\* An input string: whether it has a "//" authority part, the host and the
\* port written in it, and what Path(input).exists(), .is_file() and .suffix
\* give for it.
InputString(authority, host, port, exists, is_file, suffix) ==
    [authority |-> authority, host |-> host, port |-> port, exists |-> exists,
     is_file |-> is_file, suffix |-> suffix]

\* str.lower() on the strings of the model
Lower(s) ==
    CASE s = "WWW.YouTube.com" -> "www.youtube.com"
      [] s = "WWW.YouTube.com:443" -> "www.youtube.com:443"
      [] s = ".MP3" -> ".mp3"
      [] OTHER -> s

\* urlparse(url).netloc: the authority as written, port included; empty when
\* the string has no "//"
Netloc(u) == IF u.authority THEN u.host \o u.port ELSE ""

\* A variant that tests the host alone, whatever port follows it
IsYoutubeUrlByHostname(u) == u.authority /\ Lower(u.host) \in youtube_domains

\* _is_youtube_url
IsYoutubeUrl(u) == Lower(Netloc(u)) \in youtube_domains

\* What process_input tests of an input string
SourceOf(u) == Source(IsYoutubeUrl(u), u.exists, u.is_file, Lower(u.suffix))

NoInput == [input |-> InputString(FALSE, "", "", FALSE, FALSE, ""),
            downloadFails |-> FALSE, convertFails |-> FALSE]
NoAcquired == Acquired("none", NoPath, "none", {}, <<>>)

\* The input strings process_input is given, and whether the download or
\* the conversion would fail
AcquireInputs ==
    [input : {InputString(au, h, p, e, f, sx) :
                au \in BOOLEAN,
                h \in {"www.youtube.com", "WWW.YouTube.com", "youtu.be",
                       "music.youtube.com", "example.com"},
                p \in {"", ":443"}, e \in BOOLEAN, f \in BOOLEAN,
                sx \in {".mp3", ".MP3", ".wav", ".txt"}},
     downloadFails : BOOLEAN, convertFails : BOOLEAN]

(***************************************************************************)
(* One orchestrator run.                                                   *)
(***************************************************************************)
RunTempDir == "temp_1"

\* The audio files a run draws: max_duration is 2 s; whole files, files that
\* split by time into 2..MaxSegments segments, a file that splits at a
\* silence, a file whose decode is empty, and a file that cannot be decoded.
RunAudio(duration, length, silences, decodeFails) ==
    [path |-> NoPath, temp_dir |-> RunTempDir, duration |-> duration, length |-> length,
     silences |-> silences, decodeFails |-> decodeFails, scanFails |-> FALSE,
     exportFailAt |-> 0, exportStaysFailed |-> FALSE, max_duration |-> 2]

RunAudioInputs ==
    {RunAudio(n * 2000 - 1000, n * 2000 - 1000, <<>>, FALSE) : n \in 1..MaxSegments}
    \cup {RunAudio(6000, 6000, <<<<2000, 5000>>>>, FALSE),
          RunAudio(3000, 0, <<>>, FALSE),
          RunAudio(3000, 3000, <<>>, TRUE)}

IdleTasks == [c \in CallIds |-> IdleTask]

\* The files on disk before a run: the caller's input, when the CLI is given
\* the path of a regular file
InputFiles(orch, inp) ==
    IF orch = "cli" /\ ~inp.youtube /\ inp.exists /\ inp.is_file THEN {SourcePath} ELSE {}

\* files: the caller's input file and the files the run has written
NewRun(orch, inp, api_key, format_only, summarize_only, retry_count, retry_delay) ==
    [orch |-> orch, pc |-> "start", input |-> inp, api_key |-> api_key,
     format_only |-> format_only, summarize_only |-> summarize_only,
     retry_count |-> retry_count, retry_delay |-> retry_delay,
     processor |-> FALSE, temp_dir_exists |-> FALSE, files |-> InputFiles(orch, inp),
     audio |-> NoAudio, audio_path |-> NoPath, input_type |-> "none",
     segments |-> <<>>, raw_text |-> <<>>, formatted_text |-> <<>>,
     summary_text |-> <<>>, result |-> FALSE, error |-> "none", exit |-> "none",
     joined |-> FALSE, reordered |-> FALSE,
     cleanups |-> 0, cleanup_failed |-> FALSE,
     steps |-> <<>>, status |-> 0, background |-> <<>>]

IdleRun == NewRun("none", Source(TRUE, FALSE, FALSE, ""), FALSE, FALSE, FALSE, 0, 1)

\* A variant that also unlinks the file of every segment, as the web
\* service's cleanup_temp_files does
CleanupTempFilesAndSegments(r, rmtreeFails) ==
    LET segment_files == {r.segments[j].file_path : j \in 1..Len(r.segments)}
    IN  IF r.temp_dir_exists /\ rmtreeFails
        THEN [r EXCEPT !.cleanups = @ + 1, !.cleanup_failed = TRUE,
                       !.files = @ \ segment_files]
        ELSE [r EXCEPT !.cleanups = @ + 1,
                       !.files = {p \in @ : p.dir # RunTempDir} \ segment_files,
                       !.temp_dir_exists = FALSE]

\* AudioProcessor.cleanup_temp_files: shutil.rmtree(self.temp_dir) when the
\* directory exists; an exception of rmtree is logged and swallowed, and
\* what was in the directory stays.
CleanupTempFiles(r, rmtreeFails) ==
    IF r.temp_dir_exists /\ rmtreeFails
    THEN [r EXCEPT !.cleanups = @ + 1, !.cleanup_failed = TRUE]
    ELSE [r EXCEPT !.cleanups = @ + 1, !.files = {p \in @ : p.dir # RunTempDir},
                   !.temp_dir_exists = FALSE]

\* Fault variant of CliExcept: the handler re-raises without the cleanup.
CliExceptNoCleanup(r, error, step, rmtreeFails) ==
    [r EXCEPT !.pc = "raised", !.error = error, !.exit = step]

\* main.py's "except Exception" handler: cleanup when audio_processor is
\* bound (the NameError of an unbound one is swallowed), then re-raise.
CliExcept(r, error, step, rmtreeFails) ==
    [(IF r.processor THEN CleanupTempFiles(r, rmtreeFails) ELSE r)
        EXCEPT !.pc = "raised", !.error = error, !.exit = step]

\* A variant in which a failing rmtree propagates out of the success path
CliReturnCleanupRaises(r, rmtreeFails) ==
    IF r.temp_dir_exists /\ rmtreeFails
    THEN [CleanupTempFiles(r, rmtreeFails)
            EXCEPT !.pc = "raised", !.error = "OSError", !.exit = "cleanup"]
    ELSE [CleanupTempFiles(r, rmtreeFails)
            EXCEPT !.pc = "returned", !.result = TRUE, !.exit = "success"]

\* main.py's success path: cleanup, then the TranscriptionResult is returned.
CliReturn(r, rmtreeFails) ==
    [CleanupTempFiles(r, rmtreeFails)
        EXCEPT !.pc = "returned", !.result = TRUE, !.exit = "success"]

\* "for i, result in enumerate(results): segments[i].transcription = result"
\* for the first n results
SetTranscriptions(segments, tk, n) ==
    [j \in 1..Len(segments) |->
        IF j <= n THEN [segments[j] EXCEPT !.transcription = tk[j - 1].text]
        ELSE segments[j]]

\* Fault variant of Texts: the results are taken in reverse index order.
TextsReversed(segments, tk) ==
    [j \in 1..Len(segments) |-> tk[Len(segments) - j].text]

Texts(segments, tk) == [j \in 1..Len(segments) |-> tk[j - 1].text]

\* raw_text = "\n\n".join(raw_texts) if raw_texts else ""
CliRawText(raw_texts) == IF raw_texts # <<>> THEN Join(raw_texts, Sep) ELSE <<>>

AllStarted(n) == \A j \in 0..(n - 1) : tasks[j].st # "idle"
\* A variant of the gather that ends as soon as one task has raised
AllFinishedOrOneRaised(n) ==
    \/ \A j \in 0..(n - 1) : Finished(tasks[j])
    \/ \E j \in 0..(n - 1) : tasks[j].st = "raised"

AllFinished(n) == \A j \in 0..(n - 1) : Finished(tasks[j])
\* Fault variant of Raised: the exceptions among the results are ignored.
RaisedIgnored(n) == {}

Raised(n) == {j \in 0..(n - 1) : tasks[j].st = "raised"}

\* ---- the CLI orchestrator, main.py process_transcription

\* AudioProcessor(), GeminiClient(...), load_prompt x 3
CliConstruct ==
    /\ run.orch = "cli" /\ run.pc = "start"
    /\ \E mkdirFails \in BOOLEAN, promptMissing \in BOOLEAN, rmtreeFails \in BOOLEAN :
         run' = IF mkdirFails
                THEN CliExcept(run, "ProcessingError", "construct", rmtreeFails)
                ELSE LET r == [run EXCEPT !.processor = TRUE, !.temp_dir_exists = TRUE]
                     IN  IF ~run.api_key THEN CliExcept(r, "APIError", "client", rmtreeFails)
                         ELSE IF promptMissing
                         THEN CliExcept(r, "FileNotFoundError", "prompts", rmtreeFails)
                         ELSE [r EXCEPT !.pc = "step1"]
    /\ UNCHANGED <<tasks, total_usage, varsSplit, varsWeb, varsFunc>>

\* Step 1: process_input and get_audio_duration
CliStep1 ==
    /\ run.orch = "cli" /\ run.pc = "step1"
    /\ \E downloadFails \in BOOLEAN, convertFails \in BOOLEAN, rmtreeFails \in BOOLEAN,
          a \in RunAudioInputs :
         LET p == ProcessInput(run.input, RunTempDir, downloadFails, convertFails)
             r == [run EXCEPT !.files = @ \cup p.created,
                              !.steps = Append(@, "process_input")]
         IN  run' = IF p.status # "ok" THEN CliExcept(r, p.status, "process_input", rmtreeFails)
                    ELSE [r EXCEPT !.pc = "step2", !.audio_path = p.audio_path,
                                   !.input_type = p.input_type,
                                   !.audio = [a EXCEPT !.path = p.audio_path]]
    /\ UNCHANGED <<tasks, total_usage, varsSplit, varsWeb, varsFunc>>

SegmentFiles(s) == IF s.policy = "whole" THEN {}
                   ELSE {s.segments[j].file_path : j \in 1..Len(s.segments)}

\* Step 2: split_audio_if_needed
CliStep2 ==
    /\ run.orch = "cli" /\ run.pc = "step2"
    /\ \E rmtreeFails \in BOOLEAN :
       LET s == SplitAudioIfNeeded(run.audio)
           r == [run EXCEPT !.steps = Append(@, "split")]
       IN  /\ Len(s.segments) * run.retry_count <= MaxCalls
           /\ run' = IF s.status # "ok" THEN CliExcept(r, "ProcessingError", "split", rmtreeFails)
                     ELSE [r EXCEPT !.pc = "step3", !.segments = s.segments,
                                    !.files = @ \cup SegmentFiles(s)]
    /\ UNCHANGED <<tasks, total_usage, varsSplit, varsWeb, varsFunc>>

\* Step 3 up to its first await.  With format_only or summarize_only no
\* transcription is made: raw_text stays empty, steps 4 and 5 are skipped.
CliStep3 ==
    /\ run.orch = "cli" /\ run.pc = "step3"
    /\ \E rmtreeFails \in BOOLEAN :
       IF run.format_only \/ run.summarize_only
       THEN /\ run' = CliReturn(run, rmtreeFails)
            /\ UNCHANGED tasks
       ELSE IF Len(run.segments) = 1
       THEN \E uploadFails \in BOOLEAN :
              /\ tasks' = [tasks EXCEPT ![0] = StartTranscribe(@, run.segments[1].file_path,
                                                               uploadFails, run.retry_count)]
              /\ run' = [run EXCEPT !.pc = "await_single",
                                    !.steps = Append(@, "transcribe")]
       ELSE IF Len(run.segments) = 0
       THEN /\ run' = CliReturn([run EXCEPT !.steps = Append(@, "transcribe")], rmtreeFails)
            /\ UNCHANGED tasks
       ELSE /\ run' = [run EXCEPT !.pc = "gather", !.steps = Append(@, "transcribe")]
            /\ UNCHANGED tasks
    /\ UNCHANGED <<total_usage, varsSplit, varsWeb, varsFunc>>

\* Steps 4 and 5 of main.py once raw_texts is known, up to the next await
CliAfterTranscribe(r, tk, raw_texts, rmtreeFails) ==
    LET raw_text == CliRawText(raw_texts)
        r1 == [r EXCEPT !.raw_text = raw_text, !.joined = TRUE]
    IN  IF ~r.summarize_only /\ raw_text # <<>>
        THEN /\ run' = [r1 EXCEPT !.pc = "await_format", !.steps = Append(@, "format")]
             /\ tasks' = [tk EXCEPT ![FormatCall] =
                            StartTextCall(@, raw_text, r.retry_count)]
        ELSE IF raw_text # <<>>
        THEN /\ run' = [r1 EXCEPT !.pc = "await_summary", !.steps = Append(@, "summarize")]
             /\ tasks' = [tk EXCEPT ![SummaryCall] =
                            StartTextCall(@, raw_text, r.retry_count)]
        ELSE /\ run' = CliReturn(r1, rmtreeFails)
             /\ tasks' = tk

\* "segment_text = await gemini_client.transcribe_audio(...)" returns or raises
CliSingleDone ==
    /\ run.orch = "cli" /\ run.pc = "await_single" /\ Finished(tasks[0])
    /\ \E rmtreeFails \in BOOLEAN :
       IF tasks[0].st = "raised"
       THEN /\ run' = CliExcept(run, tasks[0].error, "transcribe", rmtreeFails)
            /\ tasks' = CollectAll(tasks, {0})
       ELSE CliAfterTranscribe(
              [run EXCEPT !.segments = SetTranscriptions(@, tasks, 1)],
              CollectAll(tasks, {0}), <<tasks[0].text>>, rmtreeFails)
    /\ UNCHANGED <<total_usage, varsSplit, varsWeb, varsFunc>>

\* "results = await asyncio.gather(..., return_exceptions=True)" and the loop
\* over the results: the first exception in index order is raised.
CliGatherDone ==
    /\ run.orch = "cli" /\ run.pc = "gather"
    /\ \E rmtreeFails \in BOOLEAN :
       LET n == Len(run.segments)
       IN  /\ AllFinished(n)
           /\ IF Raised(n) # {}
              THEN LET first == CHOOSE j \in Raised(n) : \A k \in Raised(n) : j <= k
                   IN  /\ run' = CliExcept(
                                   [run EXCEPT !.segments = SetTranscriptions(@, tasks, first)],
                                   tasks[first].error, "transcribe", rmtreeFails)
                       /\ tasks' = CollectAll(tasks, 0..(n - 1))
              ELSE CliAfterTranscribe(
                     [run EXCEPT !.segments = SetTranscriptions(@, tasks, n)],
                     CollectAll(tasks, 0..(n - 1)), Texts(run.segments, tasks),
                     rmtreeFails)
    /\ UNCHANGED <<total_usage, varsSplit, varsWeb, varsFunc>>

\* format_text returned or raised; step 5 summarizes formatted_text if it is
\* non-empty, else raw_text
CliFormatDone ==
    /\ run.orch = "cli" /\ run.pc = "await_format" /\ Finished(tasks[FormatCall])
    /\ \E rmtreeFails \in BOOLEAN :
       IF tasks[FormatCall].st = "raised"
       THEN /\ run' = CliExcept(run, tasks[FormatCall].error, "format", rmtreeFails)
            /\ tasks' = CollectAll(tasks, {FormatCall})
       ELSE LET formatted_text == tasks[FormatCall].text
                source_text == IF formatted_text # <<>> THEN formatted_text
                               ELSE run.raw_text
            IN  /\ run' = [run EXCEPT !.formatted_text = formatted_text,
                                      !.pc = "await_summary",
                                      !.steps = Append(@, "summarize")]
                /\ tasks' = [CollectAll(tasks, {FormatCall}) EXCEPT ![SummaryCall] =
                               StartTextCall(@, source_text, run.retry_count)]
    /\ UNCHANGED <<total_usage, varsSplit, varsWeb, varsFunc>>

\* summarize_text returned or raised; cleanup and the result
CliSummaryDone ==
    /\ run.orch = "cli" /\ run.pc = "await_summary" /\ Finished(tasks[SummaryCall])
    /\ \E rmtreeFails \in BOOLEAN :
         run' = IF tasks[SummaryCall].st = "raised"
                THEN CliExcept(run, tasks[SummaryCall].error, "summarize", rmtreeFails)
                ELSE CliReturn([run EXCEPT !.summary_text = tasks[SummaryCall].text],
                               rmtreeFails)
    /\ tasks' = CollectAll(tasks, {SummaryCall})
    /\ UNCHANGED <<total_usage, varsSplit, varsWeb, varsFunc>>

\* ---- the web orchestrator, app/routers/transcription.py

UploadPath == Path("deploy_tmp", "upload", 0)

allowed_extensions == {".mp3", ".wav", ".m4a", ".mp4", ".webm", ".ogg", ".flac"}

\* A handler ends by raising HTTPException(status)
WebRaise(r, status, step) ==
    [r EXCEPT !.pc = "raised", !.error = "HTTPException", !.status = status,
              !.exit = step]

\* transcribe_audio_file's "except Exception" turns every exception of its
\* try block, an HTTPException included, into HTTPException(500); its finally
\* schedules safe_cleanup_file when the upload was saved.
FileRaise(r, step) ==
    LET r1 == WebRaise(r, 500, step)
    IN  IF UploadPath \in r.files
        THEN [r1 EXCEPT !.background = Append(@, "safe_cleanup_file")]
        ELSE r1

\* How a failure of step `step` leaves the handler of run r
HandlerRaise(r, status, step) ==
    IF r.input.youtube THEN WebRaise(r, status, step) ELSE FileRaise(r, step)

\* process_transcription (web) from its start to its first await
WebStartTranscription(r) ==
    IF ~r.api_key
    THEN /\ run' = HandlerRaise(r, 500, "client")
         /\ UNCHANGED tasks
    ELSE IF Len(r.segments) = 1
    THEN \E uploadFails \in BOOLEAN :
           /\ tasks' = [tasks EXCEPT ![0] = StartTranscribe(@, r.segments[1].file_path,
                                                            uploadFails, r.retry_count)]
           /\ run' = [r EXCEPT !.pc = "await_single", !.steps = Append(@, "transcribe")]
    ELSE IF Len(r.segments) = 0
    THEN /\ run' = [r EXCEPT !.pc = "await_format",
                             !.steps = Append(Append(@, "transcribe"), "format")]
         /\ tasks' = [tasks EXCEPT ![FormatCall] = StartTextCall(@, <<>>, r.retry_count)]
    ELSE /\ run' = [r EXCEPT !.pc = "gather", !.steps = Append(@, "transcribe")]
         /\ UNCHANGED tasks

\* process_input and split_audio_if_needed inside a handler; `onInput` and
\* `onOther` are the statuses of a ProcessingError of process_input and of
\* any other failure
WebAcquire(r, path_in, a, downloadFails, convertFails) ==
    LET p == ProcessInput([r.input EXCEPT !.exists = r.input.youtube \/ @], RunTempDir,
                          downloadFails, convertFails)
        r1 == [r EXCEPT !.files = @ \cup p.created, !.steps = Append(@, "process_input")]
    IN  IF p.status # "ok"
        THEN /\ run' = HandlerRaise(r1, IF p.status = "ProcessingError" THEN 422 ELSE 500,
                                    "process_input")
             /\ UNCHANGED tasks
        ELSE LET audio_path == IF p.audio_path = SourcePath THEN path_in ELSE p.audio_path
                 s == SplitAudioIfNeeded([a EXCEPT !.path = audio_path])
                 r2 == [r1 EXCEPT !.audio_path = audio_path, !.input_type = p.input_type,
                                  !.audio = [a EXCEPT !.path = audio_path],
                                  !.steps = Append(@, "split")]
             IN  /\ Len(s.segments) * r.retry_count <= MaxCalls
                 /\ IF s.status # "ok"
                    THEN /\ run' = HandlerRaise(r2, 500, "split")
                         /\ UNCHANGED tasks
                    ELSE WebStartTranscription(
                           [r2 EXCEPT !.segments = s.segments,
                                      !.files = @ \cup SegmentFiles(s)])

\* transcribe_audio_file up to its first await on the client
WebFileHandle ==
    /\ run.orch = "web" /\ run.pc = "start" /\ ~run.input.youtube
    /\ \E too_large \in BOOLEAN, convertFails \in BOOLEAN, a \in RunAudioInputs :
         IF too_large
         THEN /\ run' = FileRaise(run, "size")
              /\ UNCHANGED tasks
         ELSE IF run.input.suffix \notin allowed_extensions
         THEN /\ run' = FileRaise(run, "extension")
              /\ UNCHANGED tasks
         ELSE WebAcquire([run EXCEPT !.files = @ \cup {UploadPath}], UploadPath, a,
                         FALSE, convertFails)
    /\ UNCHANGED <<total_usage, varsSplit, varsWeb, varsFunc>>

\* transcribe_youtube_url up to its first await on the client
WebYoutubeHandle ==
    /\ run.orch = "web" /\ run.pc = "start" /\ run.input.youtube
    /\ \E no_ffmpeg \in BOOLEAN, downloadFails \in BOOLEAN, a \in RunAudioInputs :
         IF no_ffmpeg
         THEN /\ run' = WebRaise(run, 422, "ffmpeg")
              /\ UNCHANGED tasks
         ELSE WebAcquire(run, NoPath, a, downloadFails, FALSE)
    /\ UNCHANGED <<total_usage, varsSplit, varsWeb, varsFunc>>

\* "formatted_text = await gemini_client.format_text(raw_text, format_prompt)"
WebAfterTranscribe(r, tk, raw_text) ==
    /\ run' = [r EXCEPT !.raw_text = raw_text, !.joined = TRUE, !.pc = "await_format",
                        !.steps = Append(@, "format")]
    /\ tasks' = [tk EXCEPT ![FormatCall] = StartTextCall(@, raw_text, r.retry_count)]

WebSingleDone ==
    /\ run.orch = "web" /\ run.pc = "await_single" /\ Finished(tasks[0])
    /\ IF tasks[0].st = "raised"
       THEN /\ run' = HandlerRaise(run, 500, "transcribe")
            /\ tasks' = CollectAll(tasks, {0})
       ELSE WebAfterTranscribe([run EXCEPT !.segments = SetTranscriptions(@, tasks, 1)],
                               CollectAll(tasks, {0}), tasks[0].text)
    /\ UNCHANGED <<total_usage, varsSplit, varsWeb, varsFunc>>

\* "\n\n".join(segment.transcription for segment in audio_segments
\*             if segment.transcription)
WebRawText(texts) == Join(NonEmpty(texts), Sep)

\* "results = await asyncio.gather(...)" returns: every call returned
WebGatherDone ==
    /\ run.orch = "web" /\ run.pc = "gather"
    /\ LET n == Len(run.segments)
       IN  /\ AllFinished(n) /\ Raised(n) = {}
           /\ WebAfterTranscribe([run EXCEPT !.segments = SetTranscriptions(@, tasks, n)],
                                 CollectAll(tasks, 0..(n - 1)),
                                 WebRawText(Texts(run.segments, tasks)))
    /\ UNCHANGED <<total_usage, varsSplit, varsWeb, varsFunc>>

\* asyncio.gather without return_exceptions raises as soon as one call has
\* raised; the other calls go on in the background
WebGatherRaises ==
    /\ run.orch = "web" /\ run.pc = "gather"
    /\ LET n == Len(run.segments)
       IN  AllStarted(n) /\ Raised(n) # {}
    /\ run' = HandlerRaise(run, 500, "transcribe")
    /\ UNCHANGED <<tasks, total_usage, varsSplit, varsWeb, varsFunc>>

\* "summary_text = await gemini_client.summarize_text(formatted_text, ...)"
WebFormatDone ==
    /\ run.orch = "web" /\ run.pc = "await_format" /\ Finished(tasks[FormatCall])
    /\ IF tasks[FormatCall].st = "raised"
       THEN /\ run' = HandlerRaise(run, 500, "format")
            /\ tasks' = CollectAll(tasks, {FormatCall})
       ELSE /\ run' = [run EXCEPT !.formatted_text = tasks[FormatCall].text,
                                  !.pc = "await_summary",
                                  !.steps = Append(@, "summarize")]
            /\ tasks' = [CollectAll(tasks, {FormatCall}) EXCEPT ![SummaryCall] =
                           StartTextCall(@, tasks[FormatCall].text, run.retry_count)]
    /\ UNCHANGED <<total_usage, varsSplit, varsWeb, varsFunc>>

\* The handler's tail: the result, the cleanup of the segments scheduled as a
\* background task, the response; finally schedules the upload's removal.
WebSummaryDone ==
    /\ run.orch = "web" /\ run.pc = "await_summary" /\ Finished(tasks[SummaryCall])
    /\ run' = IF tasks[SummaryCall].st = "raised"
              THEN HandlerRaise(run, 500, "summarize")
              ELSE [run EXCEPT !.summary_text = tasks[SummaryCall].text,
                               !.pc = "returned", !.result = TRUE, !.status = 200,
                               !.exit = "success",
                               !.background =
                                  IF run.input.youtube
                                  THEN Append(@, "cleanup_temp_files")
                                  ELSE Append(Append(@, "cleanup_temp_files"),
                                              "safe_cleanup_file")]
    /\ tasks' = CollectAll(tasks, {SummaryCall})
    /\ UNCHANGED <<total_usage, varsSplit, varsWeb, varsFunc>>

\* ---- the client's calls in flight

\* The calls of a gather finish in any order: reordered records that one
\* finished while a call for an earlier segment was still running.
NoteCompletion(r, c, t) ==
    IF IsAudioCall(c) /\ Finished(t) /\ \E b \in 0..(c - 1) : tasks[b].st \in {"gen", "sleep"}
    THEN [r EXCEPT !.reordered = TRUE]
    ELSE r

\* A task made by asyncio.gather runs up to its first await: the upload and
\* the first generation request.  The event loop starts the tasks in order.
TaskStart(i) ==
    /\ run.pc = "gather" /\ i < Len(run.segments)
    /\ tasks[i].st = "idle" /\ AllStarted(i)
    /\ \E uploadFails \in BOOLEAN :
         LET t == StartTranscribe(tasks[i], run.segments[i + 1].file_path,
                                  uploadFails, run.retry_count)
         IN  /\ tasks' = [tasks EXCEPT ![i] = t]
             /\ run' = NoteCompletion(run, i, t)
    /\ UNCHANGED <<total_usage, varsSplit, varsWeb, varsFunc>>

ResponseTexts(c) ==
    IF IsAudioCall(c) THEN {<<>>, TranscriptOf(tasks[c].path)}
    ELSE IF c = FormatCall THEN {<<>>, FormattedToken}
    ELSE {<<>>, SummaryToken}

\* The generation request of call c returns: the usage is added to
\* total_usage and the operation returns response.text
GenResponds(c) ==
    /\ tasks[c].st = "gen"
    /\ \E text \in ResponseTexts(c), m \in Metadata :
         LET usage == ExtractTokenUsage(m, IsAudioCall(c))
             t == OnResponse(tasks[c], text, usage)
         IN  /\ tasks' = [tasks EXCEPT ![c] = t]
             /\ total_usage' = AddUsage(total_usage, usage)
             /\ run' = NoteCompletion(run, c, t)
    /\ UNCHANGED <<varsSplit, varsWeb, varsFunc>>

\* A variant in which a generation request that raises is still charged
GenRaisesCountsUsage(c) ==
    /\ tasks[c].st = "gen"
    /\ \E msg \in ErrorMessages :
         LET t == OnError(tasks[c], msg, run.retry_count, run.retry_delay)
         IN  /\ tasks' = [tasks EXCEPT ![c] = t]
             /\ run' = NoteCompletion(run, c, t)
    /\ total_usage' = AddUsage(total_usage, TokenUsage(0, 0, 1))
    /\ UNCHANGED <<varsSplit, varsWeb, varsFunc>>

\* The generation request of call c raises
GenRaises(c) ==
    /\ tasks[c].st = "gen"
    /\ \E msg \in ErrorMessages :
         LET t == OnError(tasks[c], msg, run.retry_count, run.retry_delay)
         IN  /\ tasks' = [tasks EXCEPT ![c] = t]
             /\ run' = NoteCompletion(run, c, t)
    /\ UNCHANGED <<total_usage, varsSplit, varsWeb, varsFunc>>

\* The backoff sleep of call c is over
BackoffDone(c) ==
    /\ tasks[c].st = "sleep"
    /\ tasks' = [tasks EXCEPT ![c] = OnWake(@)]
    /\ UNCHANGED <<run, total_usage, varsSplit, varsWeb, varsFunc>>

(***************************************************************************)
(* Concurrent web requests.  The router module holds one AudioProcessor;   *)
(* every request of the process uses its temp_dir.  web is the file system *)
(* and the requests:                                                       *)
(*   content   the files: path -> the request whose audio the file holds   *)
(*   dirs      the directories that exist                                  *)
(*   req       per request: pc, its upload and segment paths, how many of  *)
(*             its gather's tasks have started, whose audio each upload to *)
(*             the remote service read (0: the file was missing), the      *)
(*             background tasks still to run, the response status          *)
(*   touch     <<path, request>>: the request wrote, read or deleted path  *)
(*   youtube_info  audio_processor.youtube_info: the request whose title   *)
(*             and uploader it holds (0: None)                             *)
(***************************************************************************)
\* The concurrent requests of the model: two
Requests == {1, 2}

DeployTempDir == "deploy_tmp"

DirPath(d) == Path(d, "dir", 0)

\* tempfile.NamedTemporaryFile(delete=False, dir=deployment_config["temp_dir"])
UploadPathOf(r) == Path(DeployTempDir, "upload", r)

\* convert_audio_format: self.temp_dir / f"converted_{input_file.stem}.mp3"
ConvertedPath(r) == Path(RunTempDir, "converted", r)

\* yt-dlp's download, converted: temp_dir / converted_youtube_audio_<time>.mp3,
\* for requests that arrive in different seconds
YoutubePath(r) == Path(RunTempDir, "youtube", r)

\* base_filename is the request whose title and uploader the name was made
\* from (0: none was returned)
NewRequest == [pc |-> "start", upload |-> NoPath, segments |-> <<>>, started |-> 0,
               sent |-> <<>>, failed |-> FALSE, status |-> 0, background |-> <<>>,
               youtube |-> FALSE, base_filename |-> 0]

IdleWeb == [content |-> <<>>, dirs |-> {DeployTempDir, RunTempDir},
            req |-> [r \in Requests |-> NewRequest], touch |-> {}, youtube_info |-> 0]

Exists(w, p) == p \in DOMAIN w.content

\* request r writes file p (export, write)
WriteFile(w, p, r) ==
    [w EXCEPT !.content = (p :> r) @@ @, !.touch = @ \cup {<<p, r>>}]

\* request r reads file p
ReadFile(w, p, r) == [w EXCEPT !.touch = @ \cup {<<p, r>>}]

\* "if os.path.exists(p): os.unlink(p)"
UnlinkIfExists(w, p, r) ==
    IF Exists(w, p)
    THEN [w EXCEPT !.content = [q \in (DOMAIN @) \ {p} |-> @[q]],
                   !.touch = @ \cup {<<p, r>>}]
    ELSE w

\* os.listdir(d) is empty: temp_dir is a subdirectory of the deployment's
DirEmpty(w, d) ==
    /\ \A p \in DOMAIN w.content : p.dir # d
    /\ d = DeployTempDir => RunTempDir \notin w.dirs

\* "if os.path.exists(d) and not os.listdir(d): os.rmdir(d)"
RmdirIfEmpty(w, d, r) ==
    IF d \in w.dirs /\ DirEmpty(w, d)
    THEN [w EXCEPT !.dirs = @ \ {d}, !.touch = @ \cup {<<DirPath(d), r>>}]
    ELSE w

\* _save_segment for segment ids n-1 down to 0
RECURSIVE WriteSegments(_, _, _)
WriteSegments(w, n, r) ==
    IF n = 0 THEN w
    ELSE WriteSegments(WriteFile(w, SegmentPath(RunTempDir, n - 1), r), n - 1, r)

\* the loop of cleanup_temp_files over the segments
RECURSIVE UnlinkSegments(_, _, _)
UnlinkSegments(w, segments, r) ==
    IF segments = <<>> THEN w
    ELSE UnlinkSegments(UnlinkIfExists(w, Head(segments), r), Tail(segments), r)

\* routers/transcription.py cleanup_temp_files(audio_segments)
WebCleanupTempFiles(w, segments, r) ==
    IF segments = <<>> THEN w
    ELSE RmdirIfEmpty(UnlinkSegments(w, segments, r), segments[1].dir, r)

\* The handler of request r ends with HTTP 500; its finally schedules the
\* removal of the upload when it was saved
RequestFails(w, r, saved) ==
    [w EXCEPT !.req[r].pc = "responded", !.req[r].status = 500,
              !.req[r].background = IF saved THEN <<"safe_cleanup_file">> ELSE <<>>]

\* transcribe_audio_file of request r from the saving of the upload to the
\* first await of process_transcription: process_input, split_audio_if_needed
\* (n segments), and for a single segment the upload of transcribe_audio.
WebReqHandle(r) ==
    /\ web.req[r].pc = "start"
    /\ \E mp3 \in BOOLEAN, n \in 1..MaxSegments :
         LET upload == UploadPathOf(r)
             audio_path == IF mp3 THEN upload ELSE ConvertedPath(r)
             w1 == WriteFile([web EXCEPT !.req[r].upload = upload], upload, r)
             w2 == IF mp3 THEN w1 ELSE WriteFile(ReadFile(w1, upload, r), audio_path, r)
             w3 == [ReadFile(w2, audio_path, r) EXCEPT !.youtube_info = r]
         IN  web' =
               IF DeployTempDir \notin web.dirs THEN RequestFails(web, r, FALSE)
               ELSE IF ~mp3 /\ RunTempDir \notin web.dirs THEN RequestFails(w1, r, TRUE)
               ELSE IF n = 1
               THEN [w3 EXCEPT !.req[r].segments = <<audio_path>>,
                               !.req[r].sent = <<w3.content[audio_path]>>,
                               !.req[r].started = 1, !.req[r].pc = "await"]
               ELSE IF RunTempDir \notin web.dirs THEN RequestFails(w3, r, TRUE)
               ELSE [WriteSegments(w3, n, r) EXCEPT
                       !.req[r].segments = [j \in 1..n |-> SegmentPath(RunTempDir, j - 1)],
                       !.req[r].pc = "gather"]
    /\ UNCHANGED <<varsSplit, varsRun, varsFunc>>

\* transcribe_youtube_url of request r up to the first await of
\* process_transcription: download_youtube_audio stores the video's title
\* and uploader, yt-dlp writes the download (making temp_dir if it is
\* missing), then split_audio_if_needed (n segments).  A failure ends the
\* handler with HTTP 422 and nothing scheduled.
WebReqYoutubeHandle(r) ==
    /\ web.req[r].pc = "start"
    /\ \E downloadFails \in BOOLEAN, n \in 1..MaxSegments :
         LET p == YoutubePath(r)
             w0 == [web EXCEPT !.youtube_info = r, !.req[r].youtube = TRUE]
             w1 == WriteFile([w0 EXCEPT !.dirs = @ \cup {RunTempDir}], p, r)
             w2 == ReadFile(w1, p, r)
         IN  web' =
               IF downloadFails
               THEN [w0 EXCEPT !.req[r].pc = "responded", !.req[r].status = 422]
               ELSE IF n = 1
               THEN [w2 EXCEPT !.req[r].segments = <<p>>,
                               !.req[r].sent = <<w2.content[p]>>,
                               !.req[r].started = 1, !.req[r].pc = "await"]
               ELSE [WriteSegments(w2, n, r) EXCEPT
                       !.req[r].segments = [j \in 1..n |-> SegmentPath(RunTempDir, j - 1)],
                       !.req[r].pc = "gather"]
    /\ UNCHANGED <<varsSplit, varsRun, varsFunc>>

\* The next task of request r's gather starts: genai.upload_file reads the
\* segment's file as it is now.
WebReqTaskStart(r) ==
    /\ web.req[r].pc = "gather" /\ web.req[r].started < Len(web.req[r].segments)
    /\ LET p == web.req[r].segments[web.req[r].started + 1]
       IN  web' = IF Exists(web, p)
                  THEN [ReadFile(web, p, r) EXCEPT
                          !.req[r].sent = Append(@, web.content[p]),
                          !.req[r].started = @ + 1]
                  ELSE [web EXCEPT !.req[r].sent = Append(@, 0),
                                   !.req[r].started = @ + 1,
                                   !.req[r].failed = TRUE]
    /\ UNCHANGED <<varsSplit, varsRun, varsFunc>>

\* The handler of request r ends.  transcribe_audio_file: 200 with
\* cleanup_temp_files and safe_cleanup_file scheduled, or 500 with
\* safe_cleanup_file only.  transcribe_youtube_url: 200 with
\* cleanup_temp_files scheduled and base_filename made from what
\* audio_processor.youtube_info holds now, or 500 with nothing scheduled.
WebReqRespond(r) ==
    /\ web.req[r].pc \in {"gather", "await"}
    /\ web.req[r].started = Len(web.req[r].segments)
    /\ \E ok \in BOOLEAN :
         web' = IF web.req[r].failed \/ ~ok
                THEN RequestFails(web, r, ~web.req[r].youtube)
                ELSE IF web.req[r].youtube
                THEN [web EXCEPT !.req[r].pc = "responded", !.req[r].status = 200,
                                 !.req[r].background = <<"cleanup_temp_files">>,
                                 !.req[r].base_filename = web.youtube_info]
                ELSE [web EXCEPT !.req[r].pc = "responded", !.req[r].status = 200,
                                 !.req[r].background =
                                    <<"cleanup_temp_files", "safe_cleanup_file">>]
    /\ UNCHANGED <<varsSplit, varsRun, varsFunc>>

\* The next background task of request r runs
WebReqBackground(r) ==
    /\ web.req[r].pc = "responded" /\ web.req[r].background # <<>>
    /\ LET w == IF Head(web.req[r].background) = "cleanup_temp_files"
                THEN WebCleanupTempFiles(web, web.req[r].segments, r)
                ELSE UnlinkIfExists(web, web.req[r].upload, r)
       IN  web' = [w EXCEPT !.req[r].background = Tail(@)]
    /\ UNCHANGED <<varsSplit, varsRun, varsFunc>>

(***************************************************************************)
(* Specifications.                                                         *)
(***************************************************************************)
\* One orchestrator run
\* process_input and calculate_cost have not been called
IdleFunc ==
    /\ acquireIn = NoInput /\ acquireOut = NoAcquired
    /\ costIn = NoCostIn /\ costOut = NoCost

Init ==
    /\ run \in {NewRun("cli", inp, key, fo, so, rc, rd) :
                  inp \in InputSources, key \in BOOLEAN, fo \in BOOLEAN, so \in BOOLEAN,
                  rc \in 0..MaxRetry, rd \in RetryDelays}
             \cup {[NewRun("web", inp, key, FALSE, FALSE, rc, rd)
                      EXCEPT !.processor = TRUE, !.temp_dir_exists = TRUE] :
                  inp \in WebInputSources, key \in BOOLEAN,
                  rc \in 0..MaxRetry, rd \in RetryDelays}
    /\ tasks = IdleTasks
    /\ total_usage = ZeroUsage
    /\ splitIn = NoAudio /\ splitOut = NoSplit
    /\ web = IdleWeb
    /\ IdleFunc

Next ==
    \/ CliConstruct
    \/ CliStep1
    \/ CliStep2
    \/ CliStep3
    \/ CliSingleDone
    \/ CliGatherDone
    \/ CliFormatDone
    \/ CliSummaryDone
    \/ WebFileHandle
    \/ WebYoutubeHandle
    \/ WebSingleDone
    \/ WebGatherDone
    \/ WebGatherRaises
    \/ WebFormatDone
    \/ WebSummaryDone
    \/ \E i \in 0..(MaxSegments - 1) : TaskStart(i)
    \/ \E c \in CallIds : GenResponds(c)
    \/ \E c \in CallIds : GenRaises(c)
    \/ \E c \in CallIds : BackoffDone(c)

Spec == Init /\ [][Next]_vars

\* The CLI orchestrator alone, under fair scheduling: the event loop runs
\* every coroutine that can run, every sleep ends, and every remote call
\* eventually returns or raises
LiveInit ==
    /\ Init
    /\ run.orch = "cli"

CliOrchestrator ==
    \/ CliConstruct
    \/ CliStep1
    \/ CliStep2
    \/ CliStep3
    \/ CliSingleDone
    \/ CliGatherDone
    \/ CliFormatDone
    \/ CliSummaryDone

LiveNext ==
    \/ CliOrchestrator
    \/ \E i \in 0..(MaxSegments - 1) : TaskStart(i)
    \/ \E c \in CallIds : GenResponds(c)
    \/ \E c \in CallIds : GenRaises(c)
    \/ \E c \in CallIds : BackoffDone(c)

LiveFairness ==
    /\ WF_vars(CliOrchestrator)
    /\ \A i \in 0..(MaxSegments - 1) : WF_vars(TaskStart(i))
    /\ \A c \in CallIds : WF_vars(GenResponds(c) \/ GenRaises(c))
    /\ \A c \in CallIds : WF_vars(BackoffDone(c))

SpecLive == LiveInit /\ [][LiveNext]_vars /\ LiveFairness

\* The segmenter alone
SplitInit ==
    /\ \E l \in Lengths : splitIn \in AudioInputs(l)
    /\ splitOut = NoSplit
    /\ run = IdleRun /\ tasks = IdleTasks /\ total_usage = ZeroUsage
    /\ web = IdleWeb
    /\ IdleFunc

SplitStep ==
    /\ splitOut.status = "none"
    /\ splitOut' = SplitAudioIfNeeded(splitIn)
    /\ UNCHANGED <<splitIn, varsRun, varsWeb, varsFunc>>

SplitNext == SplitStep

SpecSplit == SplitInit /\ [][SplitNext]_vars

\* Concurrent requests to POST /transcribe/file and /transcribe/youtube of
\* one process
WebInit ==
    /\ web = IdleWeb
    /\ run = IdleRun /\ tasks = IdleTasks /\ total_usage = ZeroUsage
    /\ splitIn = NoAudio /\ splitOut = NoSplit
    /\ IdleFunc

WebNext ==
    \/ \E r \in Requests : WebReqHandle(r)
    \/ \E r \in Requests : WebReqYoutubeHandle(r)
    \/ \E r \in Requests : WebReqTaskStart(r)
    \/ \E r \in Requests : WebReqRespond(r)
    \/ \E r \in Requests : WebReqBackground(r)

SpecWeb == WebInit /\ [][WebNext]_vars

\* process_input alone
AcquireInit ==
    /\ acquireIn \in AcquireInputs
    /\ acquireOut = NoAcquired
    /\ costIn = NoCostIn /\ costOut = NoCost
    /\ run = IdleRun /\ tasks = IdleTasks /\ total_usage = ZeroUsage
    /\ splitIn = NoAudio /\ splitOut = NoSplit
    /\ web = IdleWeb

AcquireStep ==
    /\ acquireOut.status = "none"
    /\ acquireOut' = ProcessInput(SourceOf(acquireIn.input), RunTempDir,
                                  acquireIn.downloadFails, acquireIn.convertFails)
    /\ UNCHANGED <<acquireIn, costIn, costOut, varsSplit, varsRun, varsWeb>>

SpecAcquire == AcquireInit /\ [][AcquireStep]_vars

\* calculate_cost alone
CostInit ==
    /\ costIn \in CostInputs
    /\ costOut = NoCost
    /\ acquireIn = NoInput /\ acquireOut = NoAcquired
    /\ run = IdleRun /\ tasks = IdleTasks /\ total_usage = ZeroUsage
    /\ splitIn = NoAudio /\ splitOut = NoSplit
    /\ web = IdleWeb

CostStep ==
    /\ ~costOut.returned
    /\ costOut' = [returned |-> TRUE, cost |-> CalculateCost(costIn.usage, costIn.model)]
    /\ UNCHANGED <<costIn, acquireIn, acquireOut, varsSplit, varsRun, varsWeb>>

SpecCost == CostInit /\ [][CostStep]_vars

(***************************************************************************)
(* Properties of one orchestrator run (Spec).                              *)
(***************************************************************************)
ListedExits == {"success", "process_input", "split", "transcribe", "format", "summarize"}

CliEnded == run.orch = "cli" /\ run.pc \in {"returned", "raised"}

\* C1: in the CLI orchestrator cleanup_temp_files is called exactly once per
\* run on every listed exit path (success, validation failure of
\* process_input, ProcessingError of the split, APIError of the transcribe,
\* format or summarize step): never before the run ends, never twice.
C1_CleanupExactlyOnce ==
    run.orch = "cli" =>
        /\ run.cleanups <= 1
        /\ ~CliEnded => run.cleanups = 0
        /\ (CliEnded /\ run.exit \in ListedExits) => run.cleanups = 1

\* A run whose transcribe step raised while several calls were in flight,
\* with its temporary directory removed by one cleanup
C1_Witness ==
    /\ CliEnded /\ run.exit = "transcribe" /\ run.error = "APIError"
    /\ Len(run.segments) >= 2
    /\ run.cleanups = 1 /\ ~run.temp_dir_exists /\ run.files \subseteq {SourcePath}

Concurrent == Len(run.segments) >= 2

\* Segment j (1-based) holds what the call made with its own file returned
OwnTranscript(j) ==
    /\ run.segments[j].transcription = tasks[j - 1].text
    /\ tasks[j - 1].text \in {<<>>, TranscriptOf(run.segments[j].file_path)}

Transcriptions == [j \in 1..Len(run.segments) |-> run.segments[j].transcription]

SomeSegmentCallFailed == \E j \in 1..Len(run.segments) : tasks[j - 1].error # "none"

\* C3: when several segments are transcribed concurrently and at least one
\* call fails, the transcription step fails: the orchestrator goes on to no
\* later step, returns no result and joins no raw text; it can only raise.
C3_NoPartialResult ==
    (Concurrent /\ SomeSegmentCallFailed) =>
        /\ run.pc \in {"gather", "raised"}
        /\ ~run.result /\ ~run.joined /\ run.raw_text = <<>>
        /\ run.pc = "raised" => run.exit = "transcribe"

\* The orchestrator has raised although a call for another segment returned
\* its transcript, a later call having finished first
C3_Witness ==
    /\ Concurrent /\ run.pc = "raised" /\ run.exit = "transcribe"
    /\ \E j, k \in 1..Len(run.segments) :
         /\ tasks[j - 1].error # "none"
         /\ tasks[k - 1].error = "none" /\ tasks[k - 1].text # <<>>
    /\ run.reordered /\ ~run.result /\ run.raw_text = <<>>

InLoop(c) == tasks[c].st \in {"gen", "sleep", "done", "raised"}

\* Every attempt of call c failed with a transient-pattern error
Exhausted(c) ==
    /\ tasks[c].st = "raised"
    /\ tasks[c].lastError = "none" \/ IsRetryableError(tasks[c].lastError)

\* C5: the remote generation call is never invoked more than retry_count
\* times, and an operation whose every attempt failed with a
\* transient-pattern error has invoked it exactly retry_count times and
\* raised APIError.
C5_ExactlyRetryCountCalls ==
    \A c \in CallIds :
        /\ tasks[c].calls <= run.retry_count
        /\ Exhausted(c) => tasks[c].calls = run.retry_count /\ tasks[c].error = "APIError"

\* A call that gave up after two or more transient failures
C5_Witness ==
    \E c \in CallIds :
        /\ Exhausted(c) /\ tasks[c].lastError = "Deadline timeout"
        /\ run.retry_count >= 2 /\ tasks[c].calls = run.retry_count
        /\ Len(tasks[c].waits) = run.retry_count - 1

\* The waits of call c: one before each attempt after the first
WaitsPrecedeAttempts(c) ==
    /\ tasks[c].st = "gen" => Len(tasks[c].waits) = tasks[c].attempt
    /\ tasks[c].st = "sleep" => Len(tasks[c].waits) = tasks[c].attempt + 1

\* C6 as stated: the wait that precedes attempt k (0-indexed, k >= 1) is
\* retry_delay * 2^k.
C6_WaitIsDelayTimesTwoToK ==
    \A c \in CallIds :
        InLoop(c) =>
            \A k \in 1..Len(tasks[c].waits) :
                tasks[c].waits[k] = run.retry_delay * Pow(2, k)

\* C6 amended: the wait that precedes attempt k (0-indexed, k >= 1) is
\* retry_delay * 2^(k-1); before the i-th attempt (1-indexed, i >= 2) it is
\* retry_delay * 2^(i-2).
C6_WaitIsDelayTimesTwoToKMinusOne ==
    \A c \in CallIds :
        InLoop(c) =>
            /\ WaitsPrecedeAttempts(c)
            /\ \A k \in 1..Len(tasks[c].waits) :
                   tasks[c].waits[k] = run.retry_delay * Pow(2, k - 1)

\* A call in its third attempt, after waits of retry_delay and 2 * retry_delay
C6_Witness ==
    \E c \in CallIds :
        /\ tasks[c].st = "gen" /\ tasks[c].attempt = 2 /\ run.retry_delay = 2
        /\ tasks[c].waits = <<2, 4>>

\* The last error of call c matches none of the transient patterns
FailedNonTransient(c) ==
    /\ InLoop(c)
    /\ tasks[c].lastError \in ErrorMessages /\ ~IsRetryableError(tasks[c].lastError)

\* C7: when an attempt fails with an error that matches none of the
\* transient patterns, on whichever attempt, the error is raised at once: the
\* call is never found sleeping or in a further attempt after it, and no
\* wait was slept other than those before the earlier retries.
C7_NonTransientRaisedAtOnce ==
    \A c \in CallIds :
        FailedNonTransient(c) =>
            /\ tasks[c].st = "raised"
            /\ tasks[c].calls = tasks[c].attempt + 1
            /\ Len(tasks[c].waits) = tasks[c].attempt

\* A non-transient error on the second attempt, with attempts to spare
C7_Witness ==
    \E c \in CallIds :
        /\ FailedNonTransient(c) /\ tasks[c].st = "raised"
        /\ tasks[c].calls = 2 /\ run.retry_count > 2 /\ Len(tasks[c].waits) = 1

\* C8: an operation whose attempt k (1 <= k <= retry_count) succeeds after
\* transient failures on attempts 1..k-1 returns the response of attempt k,
\* and the remote call is not invoked after that success.
C8_ReturnsFirstSuccess ==
    [][\A c \in CallIds :
         /\ GenResponds(c) =>
              /\ tasks'[c].st = "done"
              /\ tasks'[c].text = tasks'[c].response
              /\ tasks'[c].calls = tasks[c].attempt + 1
              /\ tasks'[c].calls <= run.retry_count
         /\ tasks[c].st = "done" =>
              /\ tasks'[c].st \in {"done", "collected"}
              /\ tasks'[c].text = tasks[c].text
              /\ tasks'[c].calls \in {tasks[c].calls, 0}]_vars

\* A call that returned the transcript of its third attempt after two
\* transient failures
C8_Witness ==
    \E c \in CallIds :
        /\ tasks[c].st = "done" /\ tasks[c].attempt = 2 /\ tasks[c].calls = 3
        /\ tasks[c].lastError = "Deadline timeout"
        /\ tasks[c].text # <<>> /\ tasks[c].text = tasks[c].response

\* The sum of one field of the usages of calls 0..c
RECURSIVE SumUsage(_, _)
SumUsage(c, field) ==
    IF c < 0 THEN 0 ELSE tasks[c].usage[field] + SumUsage(c - 1, field)

Succeeded(c) == tasks[c].st \in {"done", "collected"} /\ tasks[c].error = "none"

StepRank(step) ==
    CASE step = "process_input" -> 1
      [] step = "split" -> 2
      [] step = "transcribe" -> 3
      [] step = "format" -> 4
      [] step = "summarize" -> 5

RunSucceeded == run.pc = "returned"

\* C21 as stated: every successful run passes through the steps in the order
\* Classify, Acquire, ProbeDuration, Segment, Transcribe, Format, Summarize,
\* Cleanup (Format and Summarize being skipped where the spec lets them be),
\* in the Transcribe step each segment is transcribed exactly once, and all
\* transcriptions are complete before Format or Summarize starts, for every
\* combination of caller options.
C21_AllStepsInOrderEachSegmentOnce ==
    /\ \A i, j \in 1..Len(run.steps) : i < j => StepRank(run.steps[i]) < StepRank(run.steps[j])
    /\ (tasks[FormatCall].st # "idle" \/ tasks[SummaryCall].st # "idle") =>
         \A j \in 1..Len(run.segments) : tasks[j - 1].st = "collected"
    /\ RunSucceeded =>
         /\ \E i \in 1..Len(run.steps) : run.steps[i] = "transcribe"
         /\ \A j \in 1..Len(run.segments) : tasks[j - 1].st = "collected"
         /\ run.orch = "cli" => run.cleanups = 1
         /\ run.orch = "web" => \E i \in 1..Len(run.background) :
                                   run.background[i] = "cleanup_temp_files"

StepTaken(step) == \E i \in 1..Len(run.steps) : run.steps[i] = step

\* C22 as stated: format_text is called exactly when the raw text is
\* non-empty and the caller did not request summary-only; when either
\* condition fails it is not called and the formatted text is empty.
C22_FormatExactlyOnNonEmptyRawText ==
    /\ StepTaken("format") => (run.raw_text # <<>> /\ ~run.summarize_only)
    /\ (run.joined /\ run.raw_text # <<>> /\ ~run.summarize_only) => StepTaken("format")
    /\ ~StepTaken("format") => run.formatted_text = <<>>

\* C23 as stated: summarize_text is called exactly when the raw text is
\* non-empty; its input is the formatted text when that is non-empty and the
\* raw text otherwise.
C23_SummarizeExactlyOnNonEmptyRawText ==
    /\ StepTaken("summarize") => run.raw_text # <<>>
    /\ (run.pc = "returned" /\ run.raw_text # <<>>) => StepTaken("summarize")
    /\ (run.pc = "await_summary" /\ tasks[SummaryCall].st # "idle") =>
         tasks[SummaryCall].input =
            IF run.formatted_text # <<>> THEN run.formatted_text ELSE run.raw_text
    /\ ~StepTaken("summarize") => run.summary_text = <<>>

\* The errors the step a run stopped at can have raised itself
StepErrors ==
    CASE run.exit = "construct" -> {"ProcessingError"}
      [] run.exit = "client" -> {"APIError"}
      [] run.exit = "prompts" -> {"FileNotFoundError"}
      [] run.exit = "process_input" -> {"InputValidationError", "ProcessingError"}
      [] run.exit = "split" -> {"ProcessingError"}
      [] run.exit = "transcribe" ->
           {tasks[j - 1].error : j \in 1..Len(run.segments)} \ {"none"}
      [] run.exit = "format" -> {tasks[FormatCall].error} \ {"none"}
      [] run.exit = "summarize" -> {tasks[SummaryCall].error} \ {"none"}
      [] OTHER -> {}

\* C25: a failure inside the cleanup is never raised to the caller.  A CLI
\* run whose rmtree failed has ended, and it ended as it would have
\* otherwise: either it returned its result with no error, or it raised the
\* error of the step that failed (the error of a call of that step), never
\* an error of the cleanup; the failed cleanup was still counted once.
C25_CleanupFailureNeverRaised ==
    (run.orch = "cli" /\ run.cleanup_failed) =>
      /\ run.pc \in {"returned", "raised"}
      /\ run.cleanups = 1
      /\ run.pc = "returned" =>
           run.result /\ run.error = "none" /\ run.exit = "success"
      /\ run.pc = "raised" =>
           ~run.result /\ run.error \in StepErrors

C25_Witness ==
    /\ run.orch = "cli" /\ run.cleanup_failed
    /\ run.pc = "raised" /\ run.exit = "transcribe" /\ run.error = "APIError"
    /\ run.temp_dir_exists /\ run.files # {}

\* the success path of C25: the whole run went through and the rmtree failed
C25_WitnessReturned ==
    /\ run.orch = "cli" /\ run.cleanup_failed
    /\ run.pc = "returned" /\ run.summary_text # <<>>

\* No upload and no generation request was ever issued
NoRemoteCall == \A c \in CallIds : tasks[c] = IdleTask

\* A path that process_input rejects: missing, not a regular file, or of an
\* extension outside supported_formats
InvalidLocalInput(inp) ==
    ~inp.youtube /\ (~inp.exists \/ ~inp.is_file \/ inp.suffix \notin supported_formats)

\* C26: when process_input raises, the run aborts with no remote call made.
\* A run that stopped at process_input has raised (InputValidationError or
\* ProcessingError in the CLI) and no call of the client was ever started;
\* and a run on a path that process_input rejects never starts one, in any
\* state, and if it raised it did so at process_input or before it.
C26_ProcessInputFailureNoRemoteCall ==
    /\ run.exit = "process_input" =>
         /\ run.pc = "raised"
         /\ NoRemoteCall
         /\ run.orch = "cli" => run.error \in {"InputValidationError", "ProcessingError"}
         /\ Len(run.steps) = 1 /\ run.segments = <<>>
    /\ (run.orch # "none" /\ InvalidLocalInput(run.input)) =>
         /\ NoRemoteCall
         /\ run.pc # "returned"
         /\ run.pc = "raised" =>
              run.exit \in {"construct", "client", "prompts", "size", "extension",
                            "process_input"}

C26_Witness ==
    /\ run.orch = "cli" /\ run.exit = "process_input" /\ run.pc = "raised"
    /\ run.error = "InputValidationError" /\ run.input.suffix = ".txt"

\* the other exception of C26: a conversion that failed
C26_WitnessProcessingError ==
    /\ run.orch = "cli" /\ run.exit = "process_input"
    /\ run.error = "ProcessingError" /\ ~run.input.youtube

\* C27: with no API credential configured a run fails immediately with an
\* APIError, before any acquisition work and before any remote call, in the
\* CLI orchestrator and in the web endpoints.  Such a run never runs
\* process_input or the split, creates no audio file, starts no call of the
\* client and never returns; when it stops for the missing credential the
\* error is APIError.
C27_NoCredentialFailsBeforeAcquisition ==
    (run.orch # "none" /\ ~run.api_key) =>
      /\ run.steps = <<>>
      /\ run.files \subseteq {UploadPath, SourcePath}
      /\ NoRemoteCall
      /\ run.pc # "returned"
      /\ run.exit = "client" => run.pc = "raised" /\ run.error = "APIError"

\* The calls of transcribe_audio that have started and were not yet collected
TranscribeCalls == {c \in 0..(MaxSegments - 1) : tasks[c].st \notin {"idle", "collected"}}

\* C31: each transcribe_audio call uploads the audio exactly once, before
\* its first generation attempt; a retry re-issues the generation request
\* alone; an upload failure is raised as APIError with the retry loop never
\* entered.  While a transcribe_audio call is running or finished it has made
\* one upload, of its own segment's file, however many generation requests
\* and waits followed; a call whose upload failed has raised APIError with no
\* generation request and no wait; the text operations upload nothing.
C31_UploadOncePerTranscribeCall ==
    /\ \A c \in TranscribeCalls :
         /\ tasks[c].uploads = 1
         /\ tasks[c].path = run.segments[c + 1].file_path
         /\ tasks[c].lastError = "Upload failed" =>
              /\ tasks[c].st = "raised" /\ tasks[c].error = "APIError"
              /\ tasks[c].calls = 0 /\ tasks[c].attempt = 0 /\ tasks[c].waits = <<>>
    /\ \A c \in {FormatCall, SummaryCall} : tasks[c].uploads = 0

\* a call on its third generation request, still with its one upload
C31_Witness ==
    \E c \in TranscribeCalls :
      tasks[c].st = "gen" /\ tasks[c].calls = 3 /\ tasks[c].uploads = 1

C31_WitnessUploadFailed ==
    \E c \in TranscribeCalls : tasks[c].lastError = "Upload failed" /\ run.retry_count = 3

\* The segment calls of the run that were started, or are still to be started
\* by the gather, and have not finished
InFlight ==
    {j \in 0..(Len(run.segments) - 1) :
       \/ tasks[j].st \in {"gen", "sleep"}
       \/ tasks[j].st = "idle" /\ run.pc = "gather"}

\* C34: in the CLI orchestrator the cleanup of the run's temporary directory
\* never starts while a segment transcription call of the run is in flight,
\* also when one of the concurrent calls has already failed.  Once
\* cleanup_temp_files has been called no segment call is in flight, and
\* every call that was made has been collected.
C34_NoCleanupWhileCallsInFlight ==
    (run.orch = "cli" /\ run.cleanups > 0) =>
      /\ InFlight = {}
      /\ \A c \in CallIds : tasks[c].st \in {"idle", "collected"}

\* a gather of three calls of which the first raised while the other two
\* returned: the run has cleaned up after all three were over
C34_Witness ==
    /\ run.orch = "cli" /\ run.cleanups = 1 /\ run.exit = "transcribe"
    /\ Len(run.segments) = 3
    /\ tasks[0].error = "APIError" /\ tasks[1].error = "none" /\ tasks[2].error = "none"
    /\ tasks[1].st = "collected" /\ tasks[2].st = "collected"

\* the state before: one call has failed, the others are still in flight and
\* the run has not cleaned up
C34_WitnessWaiting ==
    /\ run.orch = "cli" /\ run.pc = "gather" /\ run.cleanups = 0
    /\ tasks[0].st = "raised" /\ tasks[1].st = "sleep"

\* The raw text each orchestrator makes of a list of per-segment transcripts:
\* main.py joins the list step3_process returned; the web orchestrator takes
\* the one transcript of a single segment as it is and joins the non-empty
\* ones of several
CliRawTextOf(texts) == CliRawText(texts)
WebRawTextOf(texts) == IF Len(texts) = 1 THEN texts[1] ELSE WebRawText(texts)

\* C35 as stated: for the same ordered list of N >= 1 per-segment
\* transcripts, empty ones included, the CLI orchestrator and the web
\* orchestrator produce the same raw text.  Checked on the transcripts of
\* every run that has reached its join.
C35_SameRawTextInBothOrchestrators ==
    (run.joined /\ Len(run.segments) >= 1) =>
      /\ CliRawTextOf(Transcriptions) = WebRawTextOf(Transcriptions)
      /\ run.raw_text = CliRawTextOf(Transcriptions)
      /\ run.raw_text = WebRawTextOf(Transcriptions)

C36_WitnessUpload ==
    /\ tasks[1].st = "raised" /\ tasks[1].lastError = "Upload failed"
    /\ total_usage # ZeroUsage

C36_WitnessNonTransient ==
    /\ tasks[SummaryCall].st = "raised"
    /\ tasks[SummaryCall].lastError = "400 Invalid argument"
    /\ total_usage # ZeroUsage

\* C37: the cleanup deletes only files created during the run.  When the
\* whole-file policy takes the caller's local input as the single segment's
\* file, that input still exists after the CLI run has ended, on the success
\* and on the failure path; and in general a CLI run never removes the
\* caller's input file, and after a cleanup that worked exactly the files
\* that were there before the run are left.
C37_CleanupKeepsCallerInput ==
    run.orch = "cli" =>
      /\ InputFiles("cli", run.input) \subseteq run.files
      /\ (CliEnded /\ Len(run.segments) = 1 /\ run.segments[1].file_path = SourcePath) =>
           /\ run.cleanups = 1
           /\ SourcePath \in run.files
      /\ (CliEnded /\ run.cleanups = 1 /\ ~run.cleanup_failed) =>
           run.files = InputFiles("cli", run.input)

\* a run on a short MP3 file that failed at its transcription, after the
\* cleanup: the input is the segment's file and is still there
C37_Witness ==
    /\ run.orch = "cli" /\ run.pc = "raised" /\ run.exit = "transcribe"
    /\ run.cleanups = 1 /\ ~run.cleanup_failed
    /\ Len(run.segments) = 1 /\ run.segments[1].file_path = SourcePath
    /\ run.files = {SourcePath}

\* the success path of C37
C37_WitnessReturned ==
    /\ run.orch = "cli" /\ run.pc = "returned" /\ run.summary_text # <<>>
    /\ run.cleanups = 1 /\ ~run.cleanup_failed
    /\ Len(run.segments) = 1 /\ run.segments[1].file_path = SourcePath
    /\ run.files = {SourcePath}

\* a converted input: the converted file is removed, the input is kept
C37_WitnessConverted ==
    /\ run.orch = "cli" /\ run.pc = "returned" /\ run.input.suffix = ".wav"
    /\ run.audio_path # SourcePath /\ run.files = {SourcePath}

\* C38: transcribe_audio_file answers 400 when the extension of the uploaded
\* file is not in its allowed set and 413 when the file is larger than the
\* serverless limit.
C38_FileEndpointStatuses ==
    (run.orch = "web" /\ ~run.input.youtube /\ run.pc = "raised") =>
      /\ run.exit = "size" => run.status = 413
      /\ run.exit = "extension" => run.status = 400
      /\ run.input.suffix \notin allowed_extensions => run.status \in {400, 413}

\* C39: provided every remote call eventually returns or raises and
\* RETRY_COUNT is finite, every CLI run eventually reaches a terminal state,
\* its result returned or an error raised, with the cleanup done: the retry
\* loop cannot go on forever.  The cleanup is done when cleanup_temp_files
\* has been called once; a run whose AudioProcessor could not be constructed
\* has no temporary directory and nothing to clean up.
\* A run with more than MaxCalls generation requests to make is followed up
\* to its step 2 only.
BeyondMaxCalls ==
    /\ run.pc = "step2"
    /\ Len(SplitAudioIfNeeded(run.audio).segments) * run.retry_count > MaxCalls

C39_CliRunTerminatesCleanedUp ==
    (run.orch = "cli") ~>
      \/ BeyondMaxCalls
      \/ /\ run.pc \in {"returned", "raised"}
         /\ run.cleanups = 1 \/ ~run.processor

\* a run that went through RETRY_COUNT = 3 attempts of a call that kept
\* failing, and ended cleaned up
C39_Witness ==
    /\ run.orch = "cli" /\ run.pc = "raised" /\ run.cleanups = 1
    /\ run.retry_count = 3 /\ run.exit = "transcribe"
    /\ tasks[0].st = "collected" /\ tasks[0].error = "APIError"

\* the retry loop at its last attempt
C39_WitnessLastAttempt ==
    /\ run.orch = "cli" /\ run.pc = "await_single"
    /\ tasks[0].st = "gen" /\ tasks[0].attempt = 2 /\ run.retry_count = 3

(***************************************************************************)
(* Properties of the segmenter (SpecSplit).                                *)
(***************************************************************************)
\* The split of an over-long file returned a list
SplitOfLong ==
    /\ splitOut.status = "ok"
    /\ splitIn.duration > splitIn.max_duration * MsPerSecond

DetectedSilences == {splitIn.silences[k] : k \in 1..Len(splitIn.silences)}

Gapless(segs) == \A i \in 1..(Len(segs) - 1) : segs[i].end_time = segs[i + 1].start_time

\* C4 as stated: for every duration d > D, under either policy, the list is
\* contiguous and gapless: it starts at 0, each segment ends where the next
\* starts, and the last ends at d (d being the length of the audio).
C4_ContiguousAndGapless ==
    (SplitOfLong /\ splitIn.duration = splitIn.length) =>
        LET segs == splitOut.segments
        IN  /\ segs # <<>>
            /\ segs[1].start_time = 0
            /\ Gapless(segs)
            /\ Last(segs).end_time = splitIn.duration

\* C4 amended: for every duration d > D the list of a non-empty decoded
\* audio starts at 0 and is ordered; under the fixed-interval policy it is
\* gapless and ends at the decoded length; under the silence-aware policy
\* each segment ends where a detected silence starts and the next starts
\* where that silence ends, and the last segment ends at the decoded length
\* or at the start of a silence that reaches it.  Empty audio gives no segment.
C4_GapsAreDetectedSilences ==
    SplitOfLong =>
        LET segs == splitOut.segments
            n == Len(segs)
        IN  /\ n = 0 <=> splitIn.length = 0
            /\ splitOut.policy \in {"time", "silence"}
            /\ n > 0 =>
                 /\ segs[1].start_time = 0
                 /\ \A i \in 1..n : segs[i].start_time < segs[i].end_time
                 /\ splitOut.policy = "time" =>
                      Gapless(segs) /\ segs[n].end_time = splitIn.length
                 /\ splitOut.policy = "silence" =>
                      /\ \A i \in 1..(n - 1) :
                           <<segs[i].end_time, segs[i + 1].start_time>> \in DetectedSilences
                      /\ \/ segs[n].end_time = splitIn.length
                         \/ <<segs[n].end_time, splitIn.length>> \in DetectedSilences

\* A silence-aware split into two segments with the silence left out between
\* them, the probed duration being the decoded length
C4_Witness ==
    /\ SplitOfLong /\ splitIn.duration = splitIn.length
    /\ splitOut.policy = "silence" /\ Len(splitOut.segments) = 2
    /\ splitOut.segments[1].start_time = 0
    /\ splitOut.segments[1].end_time < splitOut.segments[2].start_time
    /\ splitOut.segments[2].end_time = splitIn.length

\* C11 as stated: for every probed duration and every decoded length, the two
\* being independent, split_audio_if_needed raises ProcessingError or returns
\* a list of at least one segment.
C11_RaisesOrReturnsSegments ==
    splitOut.status # "none" =>
        \/ splitOut.status = "ProcessingError"
        \/ splitOut.status = "ok" /\ Len(splitOut.segments) >= 1

\* split_audio_if_needed has run on a file whose probed duration is at most D
SplitOfShort ==
    /\ splitOut.status # "none"
    /\ splitIn.duration <= splitIn.max_duration * MsPerSecond

C13_SegmentsAtMostMaxDuration ==
    splitOut.status = "ok" =>
        \A i \in 1..Len(splitOut.segments) :
            splitOut.segments[i].end_time - splitOut.segments[i].start_time
                <= splitIn.max_duration * MsPerSecond

\* The start of the current accumulation when the scan reaches the k-th
\* silence interval, cuts being the intervals at which a cut was made: the
\* end of the last of them before k, or 0
AccumulationStart(cuts, k) ==
    LET before == {j \in cuts : j < k}
    IN  IF before = {} THEN 0
        ELSE splitIn.silences[CHOOSE j \in before : \A i \in before : i <= j][2]

\* cuts holds exactly the intervals that start at least D after the
\* accumulation start
CutsWhereSpanReachesMax(cuts) ==
    \A k \in 1..Len(splitIn.silences) :
        k \in cuts <=> splitIn.silences[k][1] - AccumulationStart(cuts, k)
                           >= splitIn.max_duration * MsPerSecond

\* The silence-aware split returned its list
SplitAtSilences == splitOut.status = "ok" /\ splitOut.policy = "silence"

\* No _save_segment call of a silence-aware split raises
NoExportFails ==
    \/ splitIn.exportFailAt = 0
    \/ splitIn.exportFailAt > Len(splitIn.silences) + 1

\* C14: in silence-aware splitting a cut is made at exactly those silence
\* intervals, scanned in order, that start at least D after the current
\* accumulation start; the segment of a cut runs from the accumulation start
\* to the silence start and the next accumulation starts at the silence end;
\* a trailing segment up to the end of the audio is emitted exactly when a
\* remainder is left.  The split is silence-aware whenever detection returns
\* intervals and no export fails.
C14_CutsAtSilencesReachingMax ==
    /\ SplitAtSilences =>
         \E cuts \in SUBSET (1..Len(splitIn.silences)) :
            LET segs == splitOut.segments
                rest == AccumulationStart(cuts, Len(splitIn.silences) + 1)
            IN  /\ CutsWhereSpanReachesMax(cuts)
                /\ Len(segs) = Cardinality(cuts) + (IF rest < splitIn.length THEN 1 ELSE 0)
                /\ \A k \in cuts :
                     LET i == Cardinality({j \in cuts : j <= k})
                     IN  /\ segs[i].start_time = AccumulationStart(cuts, k)
                         /\ segs[i].end_time = splitIn.silences[k][1]
                         /\ i < Len(segs) => segs[i + 1].start_time = splitIn.silences[k][2]
                /\ rest < splitIn.length =>
                     /\ Last(segs).start_time = rest
                     /\ Last(segs).end_time = splitIn.length
    /\ (splitOut.scanned /\ ~splitIn.scanFails /\ splitIn.silences # <<>> /\ NoExportFails)
         => SplitAtSilences

\* Two cuts and no remainder: D = 2 s, 10 s of audio, silences from 2 s to
\* 5 s and from 7 s to 10 s give [0, 2] and [5, 7] (as the test's 2000 s,
\* D = 1800 s and silence from 1800 s to 1801 s give [0, 1800], [1801, 2000])
C14_Witness ==
    /\ SplitAtSilences
    /\ splitIn.max_duration = 2 /\ splitIn.length = 10000
    /\ splitIn.silences = << <<2000, 5000>>, <<7000, 10000>> >>
    /\ Len(splitOut.segments) = 2
    /\ splitOut.segments[1].start_time = 0 /\ splitOut.segments[1].end_time = 2000
    /\ splitOut.segments[2].start_time = 5000 /\ splitOut.segments[2].end_time = 7000

\* split_audio_if_needed has run on a decodable file with D < d <= 3D in
\* which silence detection found no interval
NoSilenceFound ==
    /\ splitOut.status # "none"
    /\ splitIn.duration > splitIn.max_duration * MsPerSecond
    /\ splitIn.duration <= splitIn.max_duration * MsPerSecond * SilenceSkipFactor
    /\ ~splitIn.decodeFails /\ ~splitIn.scanFails
    /\ splitIn.silences = <<>>

\* C15: for D < d <= 3D, when silence detection yields no intervals, the
\* list returned is the list _split_by_time returns for the same audio and
\* D: same count, bounds and indices (and the call raises exactly when
\* _split_by_time does).
C15_NoSilenceFallsBackToTimeSplit ==
    NoSilenceFound =>
        LET t == SplitByTime(splitIn, 0)
        IN  /\ splitOut.scanned
            /\ t.raised <=> splitOut.status = "ProcessingError"
            /\ ~t.raised =>
                 /\ splitOut.status = "ok"
                 /\ Len(splitOut.segments) = Len(t.segs)
                 /\ \A i \in 1..Len(t.segs) :
                      /\ splitOut.segments[i].segment_id = t.segs[i].segment_id
                      /\ splitOut.segments[i].start_time = t.segs[i].start_time
                      /\ splitOut.segments[i].end_time = t.segs[i].end_time

\* The test's case at the model's scale: D = 3 s, 5 s of audio without
\* silence give [0, 3] and [3, 5]
C15_Witness ==
    /\ NoSilenceFound /\ splitOut.status = "ok"
    /\ splitIn.max_duration = 3 /\ splitIn.duration = 5000 /\ splitIn.length = 5000
    /\ Len(splitOut.segments) = 2
    /\ splitOut.segments[1].end_time = 3000
    /\ splitOut.segments[2].start_time = 3000 /\ splitOut.segments[2].end_time = 5000

\* The fixed-interval split returned its list
SplitAtIntervals == splitOut.status = "ok" /\ splitOut.policy = "time"

\* C16: fixed-interval splitting of audio of length L with maximum D returns
\* ceil(L / D) segments, segment i spanning [i*D, min((i+1)*D, L)]: every
\* segment but the last lasts exactly D and the last lasts more than 0 and at
\* most D.
C16_TimeSplitIsCeilOfEqualParts ==
    SplitAtIntervals =>
        LET segs == splitOut.segments
            n == Len(segs)
            L == splitIn.length
            D == splitIn.max_duration * MsPerSecond
        IN  /\ (n - 1) * D < L /\ L <= n * D
            /\ \A i \in 0..(n - 1) :
                 /\ segs[i + 1].start_time = i * D
                 /\ segs[i + 1].end_time = Min((i + 1) * D, L)
            /\ \A i \in 1..(n - 1) : segs[i].end_time - segs[i].start_time = D
            /\ n > 0 => /\ segs[n].end_time - segs[n].start_time > 0
                        /\ segs[n].end_time - segs[n].start_time <= D

\* 5 s of audio with D = 2 s: three segments, the last of 1 s
C16_Witness ==
    /\ SplitAtIntervals
    /\ splitIn.length = 5000 /\ splitIn.max_duration = 2
    /\ Len(splitOut.segments) = 3
    /\ splitOut.segments[3].start_time = 4000 /\ splitOut.segments[3].end_time = 5000

C18_SegmentIdIsListPosition ==
    splitOut.status = "ok" =>
        /\ splitOut.policy \in {"whole", "silence", "time"}
        /\ \A i \in 1..Len(splitOut.segments) : splitOut.segments[i].segment_id = i - 1

\* A fixed-interval list returned after a silence-aware attempt had exported
\* segment 0 and failed: its indices start at 0 again
C18_Witness ==
    /\ splitOut.status = "ok" /\ splitOut.policy = "time" /\ splitOut.scanned
    /\ splitOut.exports > Len(splitOut.segments) + 1
    /\ Len(splitOut.segments) >= 2
    /\ splitOut.segments[1].segment_id = 0 /\ splitOut.segments[2].segment_id = 1

\* Decoding was attempted and raised
DecodeFailed == splitIn.duration > splitIn.max_duration * MsPerSecond /\ splitIn.decodeFails

\* A _save_segment call of the run raised
ExportFailed == splitIn.exportFailAt # 0 /\ splitOut.exports >= splitIn.exportFailAt

\* C19 as stated: if decoding the audio or exporting any segment fails, the
\* call is aborted with a ProcessingError and no list is returned, also when
\* the export fails during silence-aware splitting.
C19_AnyFailureAborts ==
    (splitOut.status # "none" /\ (DecodeFailed \/ ExportFailed)) =>
        splitOut.status = "ProcessingError" /\ splitOut.segments = <<>>

\* The number of _save_segment calls of the silence-aware attempt
SilenceAttemptExports ==
    IF splitOut.scanned THEN SplitBySilenceFast(splitIn).exports ELSE 0

\* A _save_segment call of the silence-aware attempt raised
ExportFailedAtSilences ==
    \E n \in 1..SilenceAttemptExports : ExportRaises(splitIn, n)

\* A _save_segment call of the fixed-interval split raised
ExportFailedAtIntervals ==
    \E n \in (SilenceAttemptExports + 1)..splitOut.exports : ExportRaises(splitIn, n)

\* segs covers the decoded audio from 0 to its end without a gap
CoversAudio(segs) ==
    IF splitIn.length = 0 THEN segs = <<>>
    ELSE /\ segs # <<>>
         /\ segs[1].start_time = 0
         /\ Gapless(segs)
         /\ Last(segs).end_time = splitIn.length

\* C19 amended: the call is aborted with a ProcessingError, and returns no
\* list, exactly when decoding the audio fails or an export of the
\* fixed-interval split fails.  A failure of silence detection or of an
\* export during silence-aware splitting is not raised: the segments made so
\* far are dropped and the fixed-interval split is run instead, whose whole
\* list is returned unless one of its own exports fails.  No returned list
\* is partial.
C19_DecodeOrIntervalExportFailureAborts ==
    splitOut.status # "none" =>
        /\ (DecodeFailed \/ ExportFailedAtIntervals) <=> splitOut.status = "ProcessingError"
        /\ splitOut.status = "ProcessingError" => splitOut.segments = <<>>
        /\ (splitOut.scanned /\ (splitIn.scanFails \/ ExportFailedAtSilences)) =>
             /\ splitOut.policy = "time"
             /\ ~ExportFailedAtIntervals => splitOut.status = "ok"
        /\ (splitOut.status = "ok" /\ splitOut.policy = "time") => CoversAudio(splitOut.segments)
        /\ (splitOut.status = "ok" /\ splitOut.policy = "silence") => ~ExportFailed

\* The first export of a silence-aware split raised and the list of the
\* fixed-interval split was returned
C19_Witness ==
    /\ splitOut.status = "ok" /\ splitOut.policy = "time"
    /\ splitOut.scanned /\ ~splitIn.scanFails
    /\ splitIn.exportFailAt = 1 /\ ExportFailedAtSilences
    /\ Len(splitOut.segments) >= 2
    /\ splitOut.exports = 1 + Len(splitOut.segments)

\* C20 as stated: every segment returned satisfies 0 <= start < end, for
\* every value the duration probe can return, its 0.0 fallback included.
C20_SegmentsStartBeforeTheyEnd ==
    splitOut.status = "ok" =>
        \A i \in 1..Len(splitOut.segments) :
            /\ 0 <= splitOut.segments[i].start_time
            /\ splitOut.segments[i].start_time < splitOut.segments[i].end_time

(***************************************************************************)
(* Properties of concurrent web requests (SpecWeb).                        *)
(***************************************************************************)
\* C9: under any interleaving of concurrent runs, the temporary directory
\* and the segment and converted files of one run are never written, read or
\* deleted by another run: no two runs touch the same path.
C9_NoPathTouchedByTwoRuns ==
    \A t1 \in web.touch, t2 \in web.touch : t1[1] = t2[1] => t1[2] = t2[2]

\* Every upload to the remote service carries the request's own audio
C9_OwnAudioSent ==
    \A r \in Requests : \A k \in 1..Len(web.req[r].sent) : web.req[r].sent[k] = r

\* Request r has been answered and its background tasks have run
RequestOver(r) == web.req[r].pc = "responded" /\ web.req[r].background = <<>>

\* The temporary audio files that hold request r's audio: its converted
\* file, its download and the segment files it exported last
TemporaryAudioOf(r) ==
    {p \in DOMAIN web.content :
        /\ web.content[p] = r
        /\ p = ConvertedPath(r) \/ p = YoutubePath(r) \/ p.kind = "segment"}

\* C24 as stated: every temporary audio resource created while serving a web
\* request (the converted file and every segment file) is released after
\* the request, whether the request succeeded or a step failed.
C24_WebTemporaryAudioReleased ==
    \A r \in Requests : RequestOver(r) => TemporaryAudioOf(r) = {}

\* C32: the shared AudioProcessor's temporary directory exists whenever a
\* later request writes a converted or a segment file into it: no cleanup of
\* a request removes it.  While a request of the process has yet to be
\* handled, the directory exists.
C32_SharedTempDirKept ==
    (\E r \in Requests : web.req[r].pc = "start") => RunTempDir \in web.dirs

\* C33: under any interleaving of concurrent web requests the base_filename
\* that transcribe_youtube_url returns is made from the title and uploader
\* of the request's own video, never from what another request's
\* process_input stored.
C33_BaseFilenameFromOwnVideo ==
    \A r \in Requests :
      (web.req[r].youtube /\ web.req[r].status = 200) => web.req[r].base_filename = r

(***************************************************************************)
(* Properties of process_input (SpecAcquire).                              *)
(***************************************************************************)
Acquiring == acquireOut.status # "none"

Called(name) == \E k \in 1..Len(acquireOut.calls) : acquireOut.calls[k] = name

\* The host of the input string's URL, lower-cased, without the port
HostOf(u) == IF u.authority THEN Lower(u.host) ELSE ""

\* C28 as stated: process_input takes an input as a remote URL exactly when
\* its URL host is in the allowlist; then it calls the downloader and makes
\* no existence check; every other input never reaches the downloader and
\* ends with InputType.FILE or with InputValidationError.
C28_ClassifiedByHost ==
    Acquiring =>
      /\ Called("download_youtube_audio") <=> HostOf(acquireIn.input) \in youtube_domains
      /\ HostOf(acquireIn.input) \in youtube_domains =>
           acquireOut.calls = <<"download_youtube_audio">>
      /\ HostOf(acquireIn.input) \notin youtube_domains =>
           \/ acquireOut.status = "ok" /\ acquireOut.input_type = "file"
           \/ acquireOut.status = "InputValidationError"

\* The inputs _is_youtube_url accepts: an authority with no port whose host,
\* lower-cased, is in the allowlist
NetlocAllowed(u) == u.authority /\ u.port = "" /\ Lower(u.host) \in youtube_domains

\* C28, amended: process_input takes an input as a remote URL exactly when
\* the lower-cased netloc of the parsed URL, port included, is in the
\* allowlist.  Then the downloader is the only call it makes (no existence
\* check) and it returns InputType.YOUTUBE or raises the downloader's
\* ProcessingError.  Every other input never reaches the downloader and
\* ends with InputType.FILE, with InputValidationError, or with the
\* ProcessingError of a conversion that failed.
C28_ClassifiedByNetloc ==
    Acquiring =>
      /\ Called("download_youtube_audio") <=> NetlocAllowed(acquireIn.input)
      /\ NetlocAllowed(acquireIn.input) =>
           /\ acquireOut.calls = <<"download_youtube_audio">>
           /\ \/ acquireOut.status = "ok" /\ acquireOut.input_type = "youtube"
              \/ acquireOut.status = "ProcessingError" /\ acquireIn.downloadFails
      /\ ~NetlocAllowed(acquireIn.input) =>
           /\ Called("exists")
           /\ \/ acquireOut.status = "ok" /\ acquireOut.input_type = "file"
              \/ acquireOut.status = "InputValidationError"
              \/ /\ acquireOut.status = "ProcessingError"
                 /\ Called("from_file") /\ acquireIn.convertFails

\* a remote URL written in capitals whose path also exists locally
C28_Witness ==
    /\ Acquiring /\ acquireIn.input.host = "WWW.YouTube.com" /\ acquireIn.input.exists
    /\ acquireOut.calls = <<"download_youtube_audio">>
    /\ acquireOut.input_type = "youtube"

\* the cases the amendment adds: an allowlisted host with a port is taken as
\* a local path, and a local file whose conversion fails
C28_WitnessPort ==
    /\ Acquiring /\ acquireIn.input.authority /\ acquireIn.input.host = "youtu.be"
    /\ acquireIn.input.port = ":443" /\ Called("exists")

C28_WitnessConversion ==
    /\ Acquiring /\ acquireOut.status = "ProcessingError" /\ Called("from_file")

\* C29: for a local-file input process_input checks existence, then
\* regular-file status, then the extension allowlist, and raises
\* InputValidationError at the first check that fails, the later ones not
\* made; a conversion is attempted only after all three passed; an input
\* that is already an MP3 file comes back with its path unchanged, nothing
\* decoded, exported or written.
C29_LocalFileChecksInOrder ==
    (Acquiring /\ ~Called("download_youtube_audio")) =>
      LET u == acquireIn.input
          passed == u.exists /\ u.is_file /\ Lower(u.suffix) \in supported_formats
      IN  /\ ~u.exists =>
               acquireOut.status = "InputValidationError" /\ acquireOut.calls = <<"exists">>
          /\ (u.exists /\ ~u.is_file) =>
               /\ acquireOut.status = "InputValidationError"
               /\ acquireOut.calls = <<"exists", "is_file">>
          /\ (u.exists /\ u.is_file /\ Lower(u.suffix) \notin supported_formats) =>
               /\ acquireOut.status = "InputValidationError"
               /\ acquireOut.calls = <<"exists", "is_file", "suffix">>
          /\ acquireOut.status = "InputValidationError" => ~passed
          /\ Called("convert_audio_format") =>
               /\ passed
               /\ Len(acquireOut.calls) >= 4
               /\ SubSeq(acquireOut.calls, 1, 4) =
                    <<"exists", "is_file", "suffix", "convert_audio_format">>
          /\ (passed /\ Lower(u.suffix) = ".mp3") =>
               /\ acquireOut.status = "ok" /\ acquireOut.input_type = "file"
               /\ acquireOut.audio_path = SourcePath
               /\ ~Called("from_file") /\ ~Called("export")
               /\ acquireOut.created = {}
          /\ (passed /\ Lower(u.suffix) # ".mp3") => Called("from_file")

\* an MP3 file, its suffix in capitals, passed through although the
\* conversion would have failed
C29_Witness ==
    /\ Acquiring /\ acquireIn.input.suffix = ".MP3" /\ acquireIn.convertFails
    /\ acquireOut.status = "ok" /\ acquireOut.audio_path = SourcePath
    /\ acquireOut.calls = <<"exists", "is_file", "suffix", "convert_audio_format">>

\* a directory named like an audio file: the second check stops it
C29_WitnessNotFile ==
    /\ Acquiring /\ acquireIn.input.exists /\ ~acquireIn.input.is_file
    /\ acquireIn.input.suffix = ".wav" /\ acquireOut.calls = <<"exists", "is_file">>

(***************************************************************************)
(* Properties of calculate_cost (SpecCost).                                *)
(***************************************************************************)
\* The models calculate_cost has prices for
InPriceTable(model) ==
    \/ InName("2.5", "flash", LowerName(model))
    \/ InName("2.5", "pro", LowerName(model))

\* What one token of each kind costs with a model
TextRate(model) == CalculateCost(TokenUsage(1, 0, 0), model)
OutputRate(model) == CalculateCost(TokenUsage(0, 1, 0), model)
AudioRate(model) == CalculateCost(TokenUsage(0, 0, 1), model)

\* C30 as stated: the cost is a function of the three token counts and the
\* model name; for every model in the price table the text-input, the
\* audio-input and the output tokens are each charged at a rate of that
\* model, the cost being the sum of the three charges; for a model that is
\* not in the table the cost is 0 whatever the counts.
C30_EachTokenKindCharged ==
    costOut.returned =>
      LET u == costIn.usage
          m == costIn.model
      IN  /\ costOut.cost = u.input_tokens * TextRate(m)
                            + u.audio_input_tokens * AudioRate(m)
                            + u.output_tokens * OutputRate(m)
          /\ InPriceTable(m) => TextRate(m) > 0 /\ AudioRate(m) > 0 /\ OutputRate(m) > 0
          /\ ~InPriceTable(m) => costOut.cost = 0

====
